---- MODULE Spec2Model ----
(***************************************************************************)
(* Model of the plan engine of reverse-diet-visualiser                     *)
(* (src/src/lib/calculations.ts): generatePlan and its helpers, run as a   *)
(* state machine with one action per loop iteration or phase entry.        *)
(*                                                                         *)
(* Number representation.  The code computes in IEEE doubles; the model    *)
(* computes in fixed point and rounds (floor) to the grid after each       *)
(* multiplication or division:                                             *)
(*   calories, TDEE, balances : 1/1000 kcal              (KcalScale)       *)
(*   weights                  : 1/10^7 kg                (KgScale)         *)
(*   adaptation / recovery    : 1/10^4                   (FactorScale)     *)
(*   efficiency               : 1/1000                   (EffScale)        *)
(*   activity multipliers     : 1/1000                                     *)
(* Math.round / Math.ceil are computed on these values as JavaScript       *)
(* computes them (round half up, ceiling).  The control of the reverse     *)
(* loop (its number of iterations and its break) depends on the last bit   *)
(* of the doubles and is computed bit-exactly in binary64.                 *)
(*                                                                         *)
(* Dates.  A Date object is its time value in hours since                  *)
(* 1970-01-01T00:00Z (or NaN); a date string "YYYY-MM-DD" is the triple    *)
(* <<Y, M, D>>.  getDate/setDate work in the local time of the process,    *)
(* toISOString in UTC, as in ECMAScript; the process time zone is part of  *)
(* the environment (env.tz).                                               *)
(*                                                                         *)
(* Specifications.  Spec is one call of generatePlan.  ApiSpec is one      *)
(* request through the create-plan route (validation, generatePlan, the    *)
(* Redis write, the response), the form's handleSubmit and the plan page's *)
(* getPlanData.  CallsSpec is a process calling generatePlan repeatedly.   *)
(***************************************************************************)
EXTENDS Integers, Sequences, FiniteSets, TLC

VARIABLES
    input,                    \* the PlanInput passed to generatePlan
    env,                      \* the runtime: time zone, Date-parser strictness
    pc,                       \* position in generatePlan
    plan,                     \* const plan: FullPlan = []
    currentDate,              \* let currentDate (time value, hours)
    currentWeekNumber,
    cumulativeWeightChangeKg,
    currentWeightKg,
    lastWeekCalories,         \* number | null : <<>> is null, <<v>> is v
    i,                        \* the running loop's index
    bmr,                      \* const bmr (line 81)
    deficitDurationWeeks,
    phaseBaseTdee,            \* baseTdee / basePostDeficitTdee / baseReverseTdee
    currentReverseCalories,
    reverseDurationWeeks,
    handler,                  \* position of the create-plan POST handler
    response,                 \* the HTTP response of the handler, <<>> before it
    store,                    \* the Redis database: plan id -> stored value
    deploy,                   \* the deployment: Redis client setting, page version
    client,                   \* the form page after handleSubmit
    page,                     \* the plan page after getPlanData
    returned                  \* the results of the generatePlan calls that ended

\* The state outside generatePlan: the service around it
svc == <<handler, response, store, deploy, client, page, returned>>

vars == <<input, env, pc, plan, currentDate, currentWeekNumber,
          cumulativeWeightChangeKg, currentWeightKg, lastWeekCalories, i, bmr,
          deficitDurationWeeks, phaseBaseTdee, currentReverseCalories,
          reverseDurationWeeks, svc>>

----------------------------------------------------------------------------
(* Fixed-point scales *)

KcalScale == 10 ^ 3
KgScale == 10 ^ 7
FactorScale == 10 ^ 4
EffScale == 10 ^ 3

(* Program constants, calculations.ts lines 4-9 *)
KCAL_PER_KG_FAT == 7700
WEEKS_INITIAL_MAINTENANCE == 1
WEEKS_POST_DEFICIT_MAINTENANCE == 2
\* ADAPTATION_RATE = 0.05 and MAX_ADAPTATION = 0.15, in 1/FactorScale
ADAPTATION_RATE == 500
MAX_ADAPTATION == 1500

Null == <<>>
Some(v) == <<v>>
Min(a, b) == IF a <= b THEN a ELSE b
Max(a, b) == IF a >= b THEN a ELSE b

\* floor(a * b / c) for b >= 0, c > 0, without forming a * b
MulDiv(a, b, c) == (a \div c) * b + ((a % c) * b) \div c

\* ceil(a / b) for b > 0 : Math.ceil of a quotient
CeilDiv(a, b) == -((-a) \div b)

\* Math.round of a value in 1/KcalScale: nearest integer, halves upward
MathRound(x) == (x + KcalScale \div 2) \div KcalScale

\* floor(sqrt(n)) for 0 <= n < 2^31 : Math.sqrt on the grid
RECURSIVE SqrtBits(_, _, _)
SqrtBits(n, r, b) ==
    IF b = 0 THEN r
    ELSE IF (r + b) * (r + b) <= n THEN SqrtBits(n, r + b, b \div 2)
         ELSE SqrtBits(n, r, b \div 2)
ISqrt(n) == SqrtBits(n, 0, 2 ^ 14)

----------------------------------------------------------------------------
(* Calendar arithmetic of ECMAScript Date: day number <-> civil date *)

IsLeap(y) == (y % 4 = 0 /\ y % 100 # 0) \/ y % 400 = 0

DaysInMonth(y, m) ==
    IF m = 2 THEN (IF IsLeap(y) THEN 29 ELSE 28)
    ELSE IF m \in {4, 6, 9, 11} THEN 30 ELSE 31

\* MakeDay(year, month, date): days since 1970-01-01; a date past the end
\* of its month runs on into the next
DaysFromCivil(y, m, d) ==
    LET yy  == IF m <= 2 THEN y - 1 ELSE y
        era == yy \div 400
        yoe == yy - era * 400
        mp  == IF m > 2 THEN m - 3 ELSE m + 9
        doy == (153 * mp + 2) \div 5 + d - 1
        doe == yoe * 365 + yoe \div 4 - yoe \div 100 + doy
    IN era * 146097 + doe - 719468

\* YearFromTime / MonthFromTime / DateFromTime of a day number
CivilFromDays(z) ==
    LET zz  == z + 719468
        era == zz \div 146097
        doe == zz - era * 146097
        yoe == (doe - doe \div 1460 + doe \div 36524 - doe \div 146096) \div 365
        doy == doe - (365 * yoe + yoe \div 4 - yoe \div 100)
        mp  == (5 * doy + 2) \div 153
        d   == doy - (153 * mp + 2) \div 5 + 1
        m   == IF mp < 10 THEN mp + 3 ELSE mp - 9
        y   == yoe + era * 400 + (IF m <= 2 THEN 1 ELSE 0)
    IN <<y, m, d>>

HoursPerDay == 24

\* The time value of UTC midnight of a civil date
UtcMidnight(y, m, d) == DaysFromCivil(y, m, d) * HoursPerDay

----------------------------------------------------------------------------
(* Local time of the process.  A time zone is its standard offset from UTC *)
(* (hours) and the UTC intervals [from, to) in which daylight saving time  *)
(* adds one hour.                                                          *)

InDst(tz, t) == \E p \in tz.dst : p[1] <= t /\ t < p[2]

\* LocalTZA(t, true): the offset in force at the UTC instant t
LocalTZA(tz, t) == tz.std + (IF InDst(tz, t) THEN 1 ELSE 0)

LocalTime(tz, t) == t + LocalTZA(tz, t)

\* UTC(tlocal): a local time that occurs twice (clocks set back) or never
\* (clocks set forward) is read with the offset in force before the change
UTCFromLocal(tz, tl) ==
    LET a == tl - tz.std
        b == tl - tz.std - 1
        aOk == ~InDst(tz, a)
        bOk == InDst(tz, b)
    IN IF aOk /\ bOk THEN b
       ELSE IF aOk THEN a
       ELSE IF bOk THEN b
       ELSE a

\* date.setDate(date.getDate() + days): same local wall-clock time, `days`
\* local calendar days later
SetDatePlus(tz, t, days) ==
    LET tl == LocalTime(tz, t)
        day == tl \div HoursPerDay
        timeInDay == tl % HoursPerDay
    IN UTCFromLocal(tz, (day + days) * HoursPerDay + timeInDay)

\* date.toISOString().split('T')[0]: the UTC calendar date
ToISODate(t) == CivilFromDays(t \div HoursPerDay)

\* addDaysAndFormat(date, days)
addDaysAndFormat(tz, date, days) == ToISODate(SetDatePlus(tz, date, days))

\* new Date(input.startDate + 'T00:00:00Z'): [nan |-> TRUE] is Invalid Date.
\* A string that is no date at all is <<0, 0, 0>>.  A day-of-month in 1..31
\* that its month does not have is rejected by a strict parser and carried
\* into the next month by a lenient one (V8).
ParseStartDate(s, lenient) ==
    LET y == s[1]
        m == s[2]
        d == s[3]
        shape == m \in 1..12 /\ d \in 1..31
        real == shape /\ d <= DaysInMonth(y, m)
    IN IF real \/ (shape /\ lenient)
       THEN [nan |-> FALSE, t |-> UtcMidnight(y, m, d)]
       ELSE [nan |-> TRUE, t |-> 0]

----------------------------------------------------------------------------
(* Metabolic model and adaptation model, calculations.ts lines 11-50 *)

\* Activity Level Multipliers, in 1/1000
activityMultipliers ==
    [sedentary |-> 1200, lightlyActive |-> 1375, moderatelyActive |-> 1550,
     veryActive |-> 1725, extraActive |-> 1900]

\* Mifflin-St Jeor: 10 * weightKg + 6.25 * heightCm - 5 * age + 5 | - 161
calculateBMR(weightKg, heightCm, age, sex) ==
    LET base == weightKg \div (KgScale \div (10 * KcalScale))
                  + (625 * heightCm * KcalScale) \div 100
                  - 5 * age * KcalScale
    IN IF sex = "male" THEN base + 5 * KcalScale ELSE base - 161 * KcalScale

calculateTDEE(b, activityLevel) ==
    MulDiv(b, activityMultipliers[activityLevel], 1000)

\* Faulty variant: the adaptation without its cap
adaptationPercentage_NoCap(weeksInDeficit) ==
    ISqrt((ADAPTATION_RATE * ADAPTATION_RATE * 100 * weeksInDeficit) \div 433)

\* Faulty variant: the adaptation computed from whole months (4 weeks each)
adaptationPercentage_WholeMonths(weeksInDeficit) ==
    Min(ISqrt(ADAPTATION_RATE * ADAPTATION_RATE * (weeksInDeficit \div 4)),
        MAX_ADAPTATION)

\* min(ADAPTATION_RATE * sqrt(weeksInDeficit / 4.33), MAX_ADAPTATION), with
\* RATE * sqrt(w / 4.33) computed as sqrt(RATE^2 * w * 100 / 433)
adaptationPercentage(weeksInDeficit) ==
    Min(ISqrt((ADAPTATION_RATE * ADAPTATION_RATE * 100 * weeksInDeficit) \div 433),
        MAX_ADAPTATION)

calculateAdaptationFactor(weeksInDeficit) ==
    FactorScale - adaptationPercentage(weeksInDeficit)

----------------------------------------------------------------------------
(* Per-week arithmetic shared by the five phases of generatePlan *)

\* floor(a * 10^k / c) for c > 0, by long division
RECURSIVE FracDigits(_, _, _)
FracDigits(r, c, k) ==
    IF k = 0 THEN 0
    ELSE ((r * 10) \div c) * 10 ^ (k - 1) + FracDigits((r * 10) % c, c, k - 1)
ScaledDiv(a, c, k) == (a \div c) * 10 ^ k + FracDigits(a % c, c, k)

\* (calories * 7) - (tdee * 7)
WeeklyBalance(calories, tdee) == calories * 7 - tdee * 7

\* weeklyBalance / (KCAL_PER_KG_FAT * efficiency), in kg: the quotient of a
\* balance in 1/10^3 kcal by 7700 * (efficiency in 1/10^3), to 7 digits
WeightChange(weeklyBalance, efficiency) ==
    ScaledDiv(weeklyBalance, KCAL_PER_KG_FAT * efficiency, 7)

\* Faulty variant: a null previous week read as 0
CalorieChange_NullAsZero(calories, last) ==
    IF last = Null THEN Some(MathRound(calories)) ELSE Some(MathRound(calories - last[1]))

\* lastWeekCalories === null ? null : Math.round(calories - lastWeekCalories)
CalorieChange(calories, last) ==
    IF last = Null THEN Null ELSE Some(MathRound(calories - last[1]))

\* input.xActivityLevel || input.initialActivityLevel
OrInitial(level) == IF level = "undefined" THEN input.initialActivityLevel ELSE level

\* The weight the engine starts from, in 1/KgScale (input is in 1/10 kg)
InputWeightKg == input.weightKg * (KgScale \div 10)

deficitCalories == input.currentMaintenanceCalories - input.dailyDeficitKcal
postDeficitCalories == deficitCalories

\* Faulty variant: the accumulator assigned instead of added to
AddToCumulative_Assigned(total, weeklyWeightChange) == weeklyWeightChange

\* cumulativeWeightChangeKg += weeklyWeightChange
AddToCumulative(total, weeklyWeightChange) == total + weeklyWeightChange

\* Faulty variant: the running weight left as it was
AddToWeight_Omitted(weight, weeklyWeightChange) == weight

\* currentWeightKg += weeklyWeightChange
AddToWeight(weight, weeklyWeightChange) == weight + weeklyWeightChange

\* One week of any phase: the record pushed and the running state advanced
EmitWeek(phaseName, calories, tdee, efficiency) ==
    LET startDate == addDaysAndFormat(env.tz, currentDate, 0)
        endDate == addDaysAndFormat(env.tz, currentDate, 6)
        weeklyBalance == WeeklyBalance(calories, tdee)
        weeklyWeightChange == WeightChange(weeklyBalance, efficiency)
    IN /\ cumulativeWeightChangeKg' =
            AddToCumulative(cumulativeWeightChangeKg, weeklyWeightChange)
       /\ currentWeightKg' = AddToWeight(currentWeightKg, weeklyWeightChange)
       /\ plan' = Append(plan,
            [weekNumber |-> currentWeekNumber,
             startDate |-> startDate,
             endDate |-> endDate,
             phaseName |-> phaseName,
             targetCalories |-> MathRound(calories),
             calorieChangeFromPreviousWeek |-> CalorieChange(calories, lastWeekCalories),
             estimatedTdeeForPhase |-> MathRound(tdee),
             estimatedWeeklyBalance |-> MathRound(weeklyBalance),
             estimatedWeeklyWeightChangeKg |-> weeklyWeightChange,
             estimatedCumulativeWeightChangeKg |-> cumulativeWeightChangeKg',
             estimatedEndWeightKg |-> currentWeightKg'])
       /\ lastWeekCalories' = Some(calories)
       /\ currentDate' = SetDatePlus(env.tz, currentDate, 7)
       /\ currentWeekNumber' = currentWeekNumber + 1

----------------------------------------------------------------------------
(* Inputs and environments explored *)

\* Calories in 1/1000 kcal, weights in 1/10 kg, dates as <<Y, M, D>>
BaseInput ==
    [age |-> 30, weightKg |-> 700, heightCm |-> 170, sex |-> "female",
     currentMaintenanceCalories |-> 2000000,
     startDate |-> <<2024, 1, 1>>,
     initialActivityLevel |-> "lightlyActive",
     deficitActivityLevel |-> "undefined",
     reverseActivityLevel |-> "undefined",
     newMaintenanceActivityLevel |-> "undefined",
     targetWeightLossKg |-> 50,
     dailyDeficitKcal |-> 500000,
     targetFinalMaintenanceCalories |-> 2200000,
     weeklyReverseIncreaseKcal |-> 100000]

Bodies ==
    { [age |-> 30, weightKg |-> 700, heightCm |-> 170, sex |-> "female"],
      [age |-> 45, weightKg |-> 955, heightCm |-> 182, sex |-> "male"] }

MaintenanceValues == {2000000, 2000400}
DeficitValues == {500000, 500800, 100}
FinalValues == {2200000, 2200600, 1400000}
IncreaseValues == {100000, 150500}
LossValues == {0, 50, 2000}

NutritionInputs ==
    { [BaseInput EXCEPT !.age = b.age, !.weightKg = b.weightKg,
                        !.heightCm = b.heightCm, !.sex = b.sex,
                        !.currentMaintenanceCalories = m,
                        !.dailyDeficitKcal = d,
                        !.targetFinalMaintenanceCalories = f,
                        !.weeklyReverseIncreaseKcal = w,
                        !.targetWeightLossKg = l] :
        b \in Bodies, m \in MaintenanceValues, d \in DeficitValues,
        f \in FinalValues, w \in IncreaseValues, l \in LossValues }

ActivityInputs ==
    { [BaseInput EXCEPT !.initialActivityLevel = a[1],
                        !.deficitActivityLevel = a[2],
                        !.reverseActivityLevel = a[3],
                        !.newMaintenanceActivityLevel = a[4],
                        !.targetWeightLossKg = l] :
        a \in { <<"sedentary", "veryActive", "undefined", "extraActive">>,
                <<"moderatelyActive", "undefined", "sedentary", "undefined">>,
                <<"extraActive", "lightlyActive", "moderatelyActive", "sedentary">> },
        l \in {0, 50} }

\* Start dates: across the start and the end of daylight saving time, across
\* a leap day and a year's end; and strings that are not dates
RealStartDates ==
    { <<2024, 1, 1>>, <<2024, 3, 25>>, <<2024, 2, 26>>, <<2023, 12, 28>>,
      <<2024, 10, 21>> }
BadStartDates == { <<0, 0, 0>>, <<2024, 13, 1>>, <<2024, 2, 30>>, <<2023, 2, 29>> }

DateInputs ==
    { [BaseInput EXCEPT !.startDate = s] : s \in RealStartDates \cup BadStartDates }

Hour(y, m, d, h) == UtcMidnight(y, m, d) + h

UtcZone == [name |-> "UTC", std |-> 0, dst |-> {}]
TimeZones ==
    { UtcZone,
      [name |-> "Asia/Tokyo", std |-> 9, dst |-> {}],
      [name |-> "Europe/London", std |-> 0,
       dst |-> { <<Hour(2024, 3, 31, 1), Hour(2024, 10, 27, 1)>>,
                 <<Hour(2025, 3, 30, 1), Hour(2025, 10, 26, 1)>> }],
      [name |-> "America/New_York", std |-> -5,
       dst |-> { <<Hour(2024, 3, 10, 7), Hour(2024, 11, 3, 6)>>,
                 <<Hour(2025, 3, 9, 7), Hour(2025, 11, 2, 6)>> }] }

UtcEnv == [tz |-> UtcZone, lenientDates |-> TRUE]
Envs == [tz : TimeZones, lenientDates : BOOLEAN]

\* The final target exactly at the post-deficit calories (2000 - 500)
EdgeInputs ==
    { [BaseInput EXCEPT !.targetFinalMaintenanceCalories = 1500000,
                        !.weeklyReverseIncreaseKcal = w] : w \in IncreaseValues }

\* Tenths of a kilocalorie that are not doubles: the final target is the
\* post-deficit calories (2000 - 500) plus one, three and two weekly increases
RoundingInputs ==
    { [BaseInput EXCEPT !.targetFinalMaintenanceCalories = t[1],
                        !.weeklyReverseIncreaseKcal = t[2]] :
        t \in { <<1550200, 50200>>, <<1650300, 50100>>, <<1600200, 50100>> } }

Calls ==
    ((NutritionInputs \cup ActivityInputs \cup EdgeInputs \cup RoundingInputs)
        \X {UtcEnv})
        \cup (DateInputs \X Envs)

----------------------------------------------------------------------------
(* JavaScript values crossing the Redis client, and the store *)

\* A value as the Redis client hands it over: its typeof / Array.isArray
\* class, for a string the kind of JSON document its text is ("malformed"
\* when JSON.parse throws on it), and the elements of the array it is or
\* encodes
JsNull == [type |-> "null", doc |-> "none", items |-> <<>>]
JsArray(a) == [type |-> "array", doc |-> "none", items |-> a]
JsObject == [type |-> "object", doc |-> "none", items |-> <<>>]
JsNumber == [type |-> "number", doc |-> "none", items |-> <<>>]
JsString(doc, a) == [type |-> "string", doc |-> doc, items |-> a]

\* JSON.stringify(plan): the text of a JSON array of the records
JSONstringify(p) == JsString("array", p)

\* JSON.parse(text): the value the text encodes; type "throws" on malformed text
JSONparse(text) ==
    CASE text.doc = "array" -> JsArray(text.items)
      [] text.doc = "object" -> JsObject
      [] text.doc = "number" -> JsNumber
      [] OTHER -> [type |-> "throws", doc |-> "none", items |-> <<>>]

\* nanoid(10): the ids the generator can return
PlanIds == {"V1StGXR8_Z", "kX9p2QmLw0"}

Absent == [type |-> "absent", doc |-> "none", items |-> <<>>]
EmptyStore == [id \in PlanIds |-> Absent]

\* The deployments: whether the Upstash client deserializes what it reads
\* (the client's automaticDeserialization, on by default), and which of the
\* plan page's getPlanData versions is built
Deploys == [autoDeserialize : BOOLEAN, pageVersion : {"stringOnly", "stringOrArray"}]

NoService ==
    /\ handler = "none"
    /\ response = Null
    /\ store = EmptyStore
    /\ deploy = [autoDeserialize |-> TRUE, pageVersion |-> "stringOrArray"]
    /\ client = [at |-> "form", id |-> ""]
    /\ page = Null
    /\ returned = <<>>

----------------------------------------------------------------------------
(* generatePlan, calculations.ts lines 60-327 *)

Init ==
    /\ \E c \in Calls : input = c[1] /\ env = c[2]
    /\ NoService
    /\ pc = "start"
    /\ plan = <<>>
    /\ currentDate = 0
    /\ currentWeekNumber = 0
    /\ cumulativeWeightChangeKg = 0
    /\ currentWeightKg = 0
    /\ lastWeekCalories = Null
    /\ i = 0
    /\ bmr = 0
    /\ deficitDurationWeeks = 0
    /\ phaseBaseTdee = 0
    /\ currentReverseCalories = 0
    /\ reverseDurationWeeks = 0

startDateInput == ParseStartDate(input.startDate, env.lenientDates)

\* lines 65-72: isNaN(startDateInput.getTime()) -> throw
InvalidStartDate ==
    /\ pc = "start"
    /\ startDateInput.nan
    /\ pc' = "thrown"
    /\ UNCHANGED <<svc, input, env, plan, currentDate, currentWeekNumber,
                   cumulativeWeightChangeKg, currentWeightKg, lastWeekCalories,
                   i, bmr, deficitDurationWeeks, phaseBaseTdee,
                   currentReverseCalories, reverseDurationWeeks>>

\* Faulty variant: the start date is used without the isNaN test
Begin_NoDateCheck ==
    /\ pc = "start"
    /\ currentDate' = startDateInput.t
    /\ currentWeekNumber' = 1
    /\ cumulativeWeightChangeKg' = 0
    /\ currentWeightKg' = InputWeightKg
    /\ lastWeekCalories' = Null
    /\ bmr' = calculateBMR(InputWeightKg, input.heightCm, input.age, input.sex)
    /\ phaseBaseTdee' = calculateTDEE(bmr', input.initialActivityLevel)
    /\ i' = 0
    /\ pc' = "initialMaintenance"
    /\ UNCHANGED <<svc, input, env, plan, deficitDurationWeeks,
                   currentReverseCalories, reverseDurationWeeks>>

\* lines 74-90: the running state, bmr and initialTdee
Begin ==
    /\ pc = "start"
    /\ ~startDateInput.nan
    /\ currentDate' = startDateInput.t
    /\ currentWeekNumber' = 1
    /\ cumulativeWeightChangeKg' = 0
    /\ currentWeightKg' = InputWeightKg
    /\ lastWeekCalories' = Null
    /\ bmr' = calculateBMR(InputWeightKg, input.heightCm, input.age, input.sex)
    /\ phaseBaseTdee' = calculateTDEE(bmr', input.initialActivityLevel)
    /\ i' = 0
    /\ pc' = "initialMaintenance"
    /\ UNCHANGED <<svc, input, env, plan, deficitDurationWeeks,
                   currentReverseCalories, reverseDurationWeeks>>

\* lines 91-115: Phase 1 loop body
InitialMaintenanceWeek ==
    /\ pc = "initialMaintenance"
    /\ i < WEEKS_INITIAL_MAINTENANCE
    /\ EmitWeek("Initial Maintenance", input.currentMaintenanceCalories,
                phaseBaseTdee, EffScale)
    /\ i' = i + 1
    /\ UNCHANGED <<svc, input, env, pc, bmr, deficitDurationWeeks, phaseBaseTdee,
                   currentReverseCalories, reverseDurationWeeks>>

\* Faulty variant: 20% added to the duration instead of 10%
DeficitDuration_TwentyPercent ==
    LET raw == CeilDiv(input.targetWeightLossKg * KCAL_PER_KG_FAT * 120,
                       input.dailyDeficitKcal * 7)
    IN Max(4, Min(raw, 52))

\* Faulty variant: no extra time added to the duration
DeficitDuration_NoExtra ==
    LET raw == CeilDiv(input.targetWeightLossKg * KCAL_PER_KG_FAT * 100,
                       input.dailyDeficitKcal * 7)
    IN Max(4, Min(raw, 52))

\* Faulty variant: no minimum duration
DeficitDuration_NoMinimum ==
    LET raw == CeilDiv(input.targetWeightLossKg * KCAL_PER_KG_FAT * 110,
                       input.dailyDeficitKcal * 7)
    IN Min(raw, 52)

\* Math.ceil(targetWeightLossKg * 7700 / (dailyDeficitKcal * 7) * 1.1),
\* then Math.max(4, Math.min(., 52)), lines 125-130
DeficitDuration ==
    LET raw == CeilDiv(input.targetWeightLossKg * KCAL_PER_KG_FAT * 110,
                       input.dailyDeficitKcal * 7)
    IN Max(4, Min(raw, 52))

\* Faulty variant: the deficit expenditure taken from the running weight
EnterDeficit_CurrentWeight ==
    /\ pc = "initialMaintenance"
    /\ i >= WEEKS_INITIAL_MAINTENANCE
    /\ phaseBaseTdee' =
         calculateTDEE(calculateBMR(currentWeightKg, input.heightCm, input.age, input.sex),
                       OrInitial(input.deficitActivityLevel))
    /\ deficitDurationWeeks' = DeficitDuration
    /\ i' = 0
    /\ pc' = "deficit"
    /\ UNCHANGED <<svc, input, env, plan, currentDate, currentWeekNumber,
                   cumulativeWeightChangeKg, currentWeightKg, lastWeekCalories,
                   bmr, currentReverseCalories, reverseDurationWeeks>>

\* lines 118-130: Phase 2 set-up
EnterDeficit ==
    /\ pc = "initialMaintenance"
    /\ i >= WEEKS_INITIAL_MAINTENANCE
    /\ phaseBaseTdee' = calculateTDEE(bmr, OrInitial(input.deficitActivityLevel))
    /\ deficitDurationWeeks' = DeficitDuration
    /\ i' = 0
    /\ pc' = "deficit"
    /\ UNCHANGED <<svc, input, env, plan, currentDate, currentWeekNumber,
                   cumulativeWeightChangeKg, currentWeightKg, lastWeekCalories,
                   bmr, currentReverseCalories, reverseDurationWeeks>>

\* Faulty variant: the efficiency without its floor of 0.9
efficiencyFactor_NoFloor(week) == EffScale - week * 3

\* Math.max(0.9, 1 - (i * 0.003)), line 145
efficiencyFactor(week) == Max(900, EffScale - week * 3)

\* lines 132-168: Phase 2 loop body
DeficitWeek ==
    /\ pc = "deficit"
    /\ i < deficitDurationWeeks
    /\ LET adaptedTdee == MulDiv(phaseBaseTdee, calculateAdaptationFactor(i), FactorScale)
       IN EmitWeek("Calorie Deficit", deficitCalories, adaptedTdee, efficiencyFactor(i))
    /\ i' = i + 1
    /\ UNCHANGED <<svc, input, env, pc, bmr, deficitDurationWeeks, phaseBaseTdee,
                   currentReverseCalories, reverseDurationWeeks>>

\* Faulty variant: Phase 3 ignores the deficit activity-level override
EnterPostDeficit_InitialLevel ==
    /\ pc = "deficit"
    /\ i >= deficitDurationWeeks
    /\ phaseBaseTdee' =
         calculateTDEE(calculateBMR(currentWeightKg, input.heightCm, input.age, input.sex),
                       input.initialActivityLevel)
    /\ i' = 0
    /\ pc' = "postDeficit"
    /\ UNCHANGED <<svc, input, env, plan, currentDate, currentWeekNumber,
                   cumulativeWeightChangeKg, currentWeightKg, lastWeekCalories,
                   bmr, deficitDurationWeeks, currentReverseCalories,
                   reverseDurationWeeks>>

\* lines 171-183: Phase 3 set-up, BMR from the weight reached
EnterPostDeficit ==
    /\ pc = "deficit"
    /\ i >= deficitDurationWeeks
    /\ phaseBaseTdee' =
         calculateTDEE(calculateBMR(currentWeightKg, input.heightCm, input.age, input.sex),
                       OrInitial(input.deficitActivityLevel))
    /\ i' = 0
    /\ pc' = "postDeficit"
    /\ UNCHANGED <<svc, input, env, plan, currentDate, currentWeekNumber,
                   cumulativeWeightChangeKg, currentWeightKg, lastWeekCalories,
                   bmr, deficitDurationWeeks, currentReverseCalories,
                   reverseDurationWeeks>>

\* Math.pow(0.67, week), in 1/100 per factor
RECURSIVE Pow67(_, _)
Pow67(x, week) == IF week = 0 THEN x ELSE Pow67(MulDiv(x, 67, 100), week - 1)

\* lines 188-189: remainingAdaptation and recoveryFactor
recoveryFactor(week) ==
    LET remainingAdaptation == Pow67(calculateAdaptationFactor(deficitDurationWeeks), week)
    IN FactorScale - (FactorScale - remainingAdaptation) \div 2

\* Faulty variant: the Phase 3 record carries the Phase 2 name
PostDeficitWeek_DeficitName ==
    /\ pc = "postDeficit"
    /\ i < WEEKS_POST_DEFICIT_MAINTENANCE
    /\ LET postDeficitTdee == MulDiv(phaseBaseTdee, recoveryFactor(i), FactorScale)
       IN EmitWeek("Calorie Deficit", postDeficitCalories, postDeficitTdee, 900)
    /\ i' = i + 1
    /\ UNCHANGED <<svc, input, env, pc, bmr, deficitDurationWeeks, phaseBaseTdee,
                   currentReverseCalories, reverseDurationWeeks>>

\* Faulty variant: the base expenditure recomputed from the running weight
\* in every week of Phase 3
PostDeficitWeek_Recomputed ==
    /\ pc = "postDeficit"
    /\ i < WEEKS_POST_DEFICIT_MAINTENANCE
    /\ LET base == calculateTDEE(calculateBMR(currentWeightKg, input.heightCm,
                                              input.age, input.sex),
                                 OrInitial(input.deficitActivityLevel))
           postDeficitTdee == MulDiv(base, recoveryFactor(i), FactorScale)
       IN EmitWeek("Post-Deficit Maintenance", postDeficitCalories, postDeficitTdee, 900)
    /\ i' = i + 1
    /\ UNCHANGED <<svc, input, env, pc, bmr, deficitDurationWeeks, phaseBaseTdee,
                   currentReverseCalories, reverseDurationWeeks>>

\* lines 185-219: Phase 3 loop body
PostDeficitWeek ==
    /\ pc = "postDeficit"
    /\ i < WEEKS_POST_DEFICIT_MAINTENANCE
    /\ LET postDeficitTdee == MulDiv(phaseBaseTdee, recoveryFactor(i), FactorScale)
       IN EmitWeek("Post-Deficit Maintenance", postDeficitCalories, postDeficitTdee, 900)
    /\ i' = i + 1
    /\ UNCHANGED <<svc, input, env, pc, bmr, deficitDurationWeeks, phaseBaseTdee,
                   currentReverseCalories, reverseDurationWeeks>>

----------------------------------------------------------------------------
(* IEEE 754 binary64, for the reverse phase's loop control *)

\* The reverse phase compares and divides sums of its inputs (lines 234-241,
\* 283): whether the running target "reaches" the final value, and the
\* ceiling of the quotient, depend on the last bit of the doubles.  A
\* non-negative double below 2^20 is held exactly, as the number of 2^-60
\* it is made of, in four limbs of 20 bits, lowest first.
LimbBase == 2 ^ 20
MantissaBits == 52 + 1
RECURSIVE Pow2(_)
Pow2(n) == IF n = 0 THEN 1 ELSE 2 * Pow2(n - 1)

\* Carries (and borrows) propagated upwards
Carried(t) ==
    LET u2 == t[2] + t[1] \div LimbBase
        u3 == t[3] + u2 \div LimbBase
    IN <<t[1] % LimbBase, u2 % LimbBase, u3 % LimbBase, t[4] + u3 \div LimbBase>>

Plus(x, y) == Carried(<<x[1] + y[1], x[2] + y[2], x[3] + y[3], x[4] + y[4]>>)
\* x - y for x >= y
Minus(x, y) == Carried(<<x[1] - y[1], x[2] - y[2], x[3] - y[3], x[4] - y[4]>>)
\* x * n for a natural n below 2^11
Times(x, n) == Carried(<<x[1] * n, x[2] * n, x[3] * n, x[4] * n>>)

Less(x, y) ==
    \/ x[4] < y[4]
    \/ x[4] = y[4] /\ x[3] < y[3]
    \/ x[4] = y[4] /\ x[3] = y[3] /\ x[2] < y[2]
    \/ x[4] = y[4] /\ x[3] = y[3] /\ x[2] = y[2] /\ x[1] < y[1]

RECURSIVE ShiftRight(_, _)
ShiftRight(x, s) ==
    IF s >= 20
    THEN ShiftRight(<<x[2], x[3], x[4], 0>>, s - 20)
    ELSE LET low == Pow2(s)
             high == Pow2(20 - s)
         IN <<x[1] \div low + (x[2] % low) * high,
              x[2] \div low + (x[3] % low) * high,
              x[3] \div low + (x[4] % low) * high,
              x[4] \div low>>

RECURSIVE ShiftLeft(_, _)
ShiftLeft(x, s) ==
    IF s >= 20
    THEN ShiftLeft(<<0, x[1], x[2], x[3]>>, s - 20)
    ELSE LET low == Pow2(s)
             high == Pow2(20 - s)
         IN <<(x[1] % high) * low,
              (x[2] % high) * low + x[1] \div high,
              (x[3] % high) * low + x[2] \div high,
              (x[4] % high) * low + x[3] \div high>>

\* The number of significant bits
RECURSIVE BitsOf(_)
BitsOf(n) == IF n = 0 THEN 0 ELSE 1 + BitsOf(n \div 2)
BitLength(x) ==
    IF x[4] # 0 THEN 60 + BitsOf(x[4])
    ELSE IF x[3] # 0 THEN 40 + BitsOf(x[3])
    ELSE IF x[2] # 0 THEN 20 + BitsOf(x[2])
    ELSE BitsOf(x[1])

\* Round to nearest, ties to even, to 53 significant bits; inexact says that
\* the value is a little above x
RoundTiesToEven(x, inexact) ==
    LET s == BitLength(x) - MantissaBits
    IN IF s <= 0 THEN x
       ELSE LET kept == ShiftRight(x, s)
                floor == ShiftLeft(kept, s)
                rest == Minus(x, floor)
                half == ShiftLeft(<<1, 0, 0, 0>>, s - 1)
                up == \/ Less(half, rest)
                      \/ rest = half /\ (inexact \/ kept[1] % 2 = 1)
            IN IF up THEN Plus(floor, ShiftLeft(<<1, 0, 0, 0>>, s)) ELSE floor

\* The double a decimal literal denotes (JSON.parse of the request body),
\* for v thousandths, v = 0 or 8 <= v < 10^9
Double(v) ==
    LET r4 == (v % 1000) * LimbBase
        r3 == (r4 % 1000) * LimbBase
        r2 == (r3 % 1000) * LimbBase
    IN RoundTiesToEven(<<r2 \div 1000, r3 \div 1000, r4 \div 1000, v \div 1000>>,
                       r2 % 1000 # 0)

\* x + y and x - y (x >= y) of doubles
Sum(x, y) == RoundTiesToEven(Plus(x, y), FALSE)
Difference(x, y) == RoundTiesToEven(Minus(x, y), FALSE)

\* The whole part of x / y, exactly
RECURSIVE WholeQuotient(_, _, _)
WholeQuotient(x, y, n) ==
    IF Less(x, Times(y, n + 1)) THEN n ELSE WholeQuotient(x, y, n + 1)

\* Math.ceil(x / y) for doubles x >= 0 and y > 0: the quotient is rounded to
\* a double before the ceiling is taken, and a quotient at most half a unit
\* in the last place above a whole number n >= 1 rounds to n
CeilOfQuotient(x, y) ==
    LET n == WholeQuotient(x, y, 0)
        rest == Minus(x, Times(y, n))
    IN IF rest = <<0, 0, 0, 0>> THEN n
       ELSE IF n >= 1 /\ ~Less(ShiftRight(y, MantissaBits + 1 - BitsOf(n)), rest)
            THEN n
            ELSE n + 1

\* Math.floor(x / y) for doubles x >= 0 and y > 0: a quotient at most half a
\* unit in the last place below n + 1 rounds to n + 1
FloorOfQuotient(x, y) ==
    LET n == WholeQuotient(x, y, 0)
        rest == Minus(Times(y, n + 1), x)
    IN IF ~Less(ShiftRight(y, MantissaBits + 1 - BitsOf(n)), rest)
       THEN n + 1
       ELSE n

\* A double with its sign: maintenance minus deficit may be negative
Zero == <<0, 0, 0, 0>>
Positive(x) == [neg |-> FALSE, mag |-> x]
Negated(a) == [neg |-> ~a.neg /\ a.mag # Zero, mag |-> a.mag]
LessThan(a, b) ==
    IF a.neg = b.neg
    THEN IF a.neg THEN Less(b.mag, a.mag) ELSE Less(a.mag, b.mag)
    ELSE a.neg
\* a + b, a - b, Math.min(a, b) and Math.ceil(a / b) (b > 0) of doubles
Added(a, b) ==
    IF a.neg = b.neg
    THEN [neg |-> a.neg, mag |-> Sum(a.mag, b.mag)]
    ELSE IF Less(a.mag, b.mag)
         THEN [neg |-> b.neg, mag |-> Difference(b.mag, a.mag)]
         ELSE [neg |-> a.neg /\ a.mag # b.mag, mag |-> Difference(a.mag, b.mag)]
Subtracted(a, b) == Added(a, Negated(b))
MathMin(a, b) == IF LessThan(b, a) THEN b ELSE a
MathCeilOfQuotient(a, b) ==
    IF a.neg THEN -FloorOfQuotient(a.mag, b.mag) ELSE CeilOfQuotient(a.mag, b.mag)

\* The doubles of the reverse phase.  postDeficitCalories (line 120, 160) and
\* the input fields of lines 234-241, as the doubles they are
postDeficitCalories64 ==
    Subtracted(Positive(Double(input.currentMaintenanceCalories)),
               Positive(Double(input.dailyDeficitKcal)))
targetFinalMaintenanceCalories64 ==
    Positive(Double(input.targetFinalMaintenanceCalories))
weeklyReverseIncreaseKcal64 == Positive(Double(input.weeklyReverseIncreaseKcal))

\* currentReverseCalories after the given number of iterations of the loop
\* (line 233, then line 241 once per iteration), as the double it is; the
\* variable currentReverseCalories holds it to the 1/1000 kcal
RECURSIVE currentReverseCalories64(_)
currentReverseCalories64(weeks) ==
    IF weeks = 0
    THEN postDeficitCalories64
    ELSE MathMin(Added(currentReverseCalories64(weeks - 1), weeklyReverseIncreaseKcal64),
                 targetFinalMaintenanceCalories64)

\* Faulty variant: the reverse phase given at least one week
EnterReverse_AtLeastOneWeek ==
    /\ pc = "postDeficit"
    /\ i >= WEEKS_POST_DEFICIT_MAINTENANCE
    /\ phaseBaseTdee' =
         calculateTDEE(calculateBMR(currentWeightKg, input.heightCm, input.age, input.sex),
                       OrInitial(input.reverseActivityLevel))
    /\ currentReverseCalories' = postDeficitCalories
    /\ reverseDurationWeeks' =
         Max(1, MathCeilOfQuotient(Subtracted(targetFinalMaintenanceCalories64,
                                              postDeficitCalories64),
                                   weeklyReverseIncreaseKcal64))
    /\ i' = 0
    /\ pc' = "reverse"
    /\ UNCHANGED <<svc, input, env, plan, currentDate, currentWeekNumber,
                   cumulativeWeightChangeKg, currentWeightKg, lastWeekCalories,
                   bmr, deficitDurationWeeks>>

\* lines 222-237: Phase 4 set-up
EnterReverse ==
    /\ pc = "postDeficit"
    /\ i >= WEEKS_POST_DEFICIT_MAINTENANCE
    /\ phaseBaseTdee' =
         calculateTDEE(calculateBMR(currentWeightKg, input.heightCm, input.age, input.sex),
                       OrInitial(input.reverseActivityLevel))
    /\ currentReverseCalories' = postDeficitCalories
    /\ reverseDurationWeeks' =
         MathCeilOfQuotient(Subtracted(targetFinalMaintenanceCalories64,
                                       postDeficitCalories64),
                            weeklyReverseIncreaseKcal64)
    /\ i' = 0
    /\ pc' = "reverse"
    /\ UNCHANGED <<svc, input, env, plan, currentDate, currentWeekNumber,
                   cumulativeWeightChangeKg, currentWeightKg, lastWeekCalories,
                   bmr, deficitDurationWeeks>>

\* Faulty variant: the recovery counted from the start of the reverse phase
reverseRecoveryFactor_FromPhaseStart(weeksAfterDeficit) ==
    Min(FactorScale, 9500 + (weeksAfterDeficit - WEEKS_POST_DEFICIT_MAINTENANCE) * 150)

\* Math.min(1.0, 0.95 + (weeksAfterDeficit * 0.015)), line 250
reverseRecoveryFactor(weeksAfterDeficit) ==
    Min(FactorScale, 9500 + weeksAfterDeficit * 150)

\* Faulty variant: the surplus efficiency applied to every week
surplusEfficiency_Always(weeklyBalance) == 900

\* weeklyBalance > 0 ? 0.9 : 1.0, line 259
surplusEfficiency(weeklyBalance) == IF weeklyBalance > 0 THEN 900 ELSE EffScale

\* Faulty variant: the weekly increase without the cap
NextReverseCalories_NoCap == currentReverseCalories + input.weeklyReverseIncreaseKcal

\* Math.min(currentReverseCalories + weeklyReverseIncreaseKcal, target), line 241
NextReverseCalories ==
    Min(currentReverseCalories + input.weeklyReverseIncreaseKcal,
        input.targetFinalMaintenanceCalories)

\* Faulty variant: a loop without the break
ReverseBreak_Never(weeks) == FALSE

\* line 283: the break test, on the calories just set in the iteration that
\* makes the given number of iterations
ReverseBreak(weeks) ==
    ~LessThan(currentReverseCalories64(weeks), targetFinalMaintenanceCalories64)

\* The running target after the given number of Reverse Diet weeks is the
\* final target (it is never above it)
TargetReached(weeks) == currentReverseCalories64(weeks) = targetFinalMaintenanceCalories64

\* lines 239-286: Phase 4 loop body, with its break
ReverseWeek ==
    /\ pc = "reverse"
    /\ i < reverseDurationWeeks
    /\ currentReverseCalories' = NextReverseCalories
    /\ LET reverseTdee ==
               MulDiv(phaseBaseTdee,
                      reverseRecoveryFactor(WEEKS_POST_DEFICIT_MAINTENANCE + i),
                      FactorScale)
           weeklyBalance == WeeklyBalance(currentReverseCalories', reverseTdee)
       IN EmitWeek("Reverse Diet", currentReverseCalories', reverseTdee,
                   surplusEfficiency(weeklyBalance))
    /\ IF ReverseBreak(i + 1)
       THEN i' = i /\ pc' = "newMaintenance"
       ELSE i' = i + 1 /\ pc' = "reverse"
    /\ UNCHANGED <<svc, input, env, bmr, deficitDurationWeeks, phaseBaseTdee,
                   reverseDurationWeeks>>

\* line 239: the loop condition fails
LeaveReverse ==
    /\ pc = "reverse"
    /\ i >= reverseDurationWeeks
    /\ pc' = "newMaintenance"
    /\ UNCHANGED <<svc, input, env, plan, currentDate, currentWeekNumber,
                   cumulativeWeightChangeKg, currentWeightKg, lastWeekCalories,
                   i, bmr, deficitDurationWeeks, phaseBaseTdee,
                   currentReverseCalories, reverseDurationWeeks>>

\* lines 288-326: Phase 5, one week, and return plan
NewMaintenanceWeek ==
    /\ pc = "newMaintenance"
    /\ phaseBaseTdee' =
         calculateTDEE(calculateBMR(currentWeightKg, input.heightCm, input.age, input.sex),
                       OrInitial(input.newMaintenanceActivityLevel))
    /\ EmitWeek("New Maintenance", input.targetFinalMaintenanceCalories,
                phaseBaseTdee', EffScale)
    /\ pc' = "done"
    /\ UNCHANGED <<svc, input, env, i, bmr, deficitDurationWeeks,
                   currentReverseCalories, reverseDurationWeeks>>

Next ==
    \/ InvalidStartDate
    \/ Begin
    \/ InitialMaintenanceWeek
    \/ EnterDeficit
    \/ DeficitWeek
    \/ EnterPostDeficit
    \/ PostDeficitWeek
    \/ EnterReverse
    \/ ReverseWeek
    \/ LeaveReverse
    \/ NewMaintenanceWeek

Spec == Init /\ [][Next]_vars

----------------------------------------------------------------------------
(* The create-plan route, src/src/app/api/create-plan/route.ts, the form's
   handleSubmit, src/src/app/page.tsx, and the plan page's getPlanData.
   A numeric field that is absent, null or 0 in the JSON body is 0 here, a
   string field that is absent or empty is "": the validation's !x does not
   tell them apart.  startDate is <<Y, M, D>> for text of the form
   dddd-dd-dd, <<>> when absent, a one-element tuple for any other text. *)

\* generatePlan's locals before any call
NoActivation ==
    /\ plan = <<>>
    /\ currentDate = 0
    /\ currentWeekNumber = 0
    /\ cumulativeWeightChangeKg = 0
    /\ currentWeightKg = 0
    /\ lastWeekCalories = Null
    /\ i = 0
    /\ bmr = 0
    /\ deficitDurationWeeks = 0
    /\ phaseBaseTdee = 0
    /\ currentReverseCalories = 0
    /\ reverseDurationWeeks = 0

locals == <<plan, currentDate, currentWeekNumber, cumulativeWeightChangeKg,
            currentWeightKg, lastWeekCalories, i, bmr, deficitDurationWeeks,
            phaseBaseTdee, currentReverseCalories, reverseDurationWeeks>>

\* /^\d{4}-\d{2}-\d{2}$/.test(startDate), line 36
MatchesDateFormat(s) ==
    /\ Len(s) = 3
    /\ s[1] \in 0..9999
    /\ s[2] \in 0..99
    /\ s[3] \in 0..99

\* !x for a number and for a string
NotNumber(x) == x = 0
NotString(x) == x = ""

\* lines 25-37: the condition of the 400 response
InvalidInputData ==
    \/ NotNumber(input.age) \/ input.age <= 0
    \/ NotNumber(input.weightKg) \/ input.weightKg <= 0
    \/ NotNumber(input.heightCm) \/ input.heightCm <= 0
    \/ NotString(input.sex)
    \/ NotNumber(input.currentMaintenanceCalories) \/ input.currentMaintenanceCalories <= 0
    \/ NotString(input.initialActivityLevel)
    \/ NotNumber(input.targetWeightLossKg) \/ input.targetWeightLossKg < 0
    \/ NotNumber(input.dailyDeficitKcal) \/ input.dailyDeficitKcal <= 0
    \/ NotNumber(input.targetFinalMaintenanceCalories)
    \/ input.targetFinalMaintenanceCalories <= 0
    \/ NotNumber(input.weeklyReverseIncreaseKcal) \/ input.weeklyReverseIncreaseKcal <= 0
    \/ input.startDate = <<>> \/ ~MatchesDateFormat(input.startDate)

\* NextResponse.json(body, { status })
Created(planId) == [status |-> 201, planId |-> Some(planId), error |-> ""]
Failure(status, error) == [status |-> status, planId |-> Null, error |-> error]

\* Request bodies: the spec's example, a target loss of 0, a final target at
\* the post-deficit calories, and bodies failing one validation test each
ValidBodies ==
    {BaseInput, [BaseInput EXCEPT !.targetFinalMaintenanceCalories = 1500000],
     [BaseInput EXCEPT !.dailyDeficitKcal = 500800, !.sex = "male"]}
ZeroLossBody == [BaseInput EXCEPT !.targetWeightLossKg = 0]
\* A daily deficit above the maintenance calories, and one equal to them
OverdrawnBodies ==
    { [BaseInput EXCEPT !.dailyDeficitKcal = v] : v \in {2500000, 2000000} }
InvalidBodies ==
    { [BaseInput EXCEPT !.age = 0],
      [BaseInput EXCEPT !.weightKg = -700],
      [BaseInput EXCEPT !.heightCm = 0],
      [BaseInput EXCEPT !.sex = ""],
      [BaseInput EXCEPT !.currentMaintenanceCalories = 0],
      [BaseInput EXCEPT !.initialActivityLevel = ""],
      [BaseInput EXCEPT !.targetWeightLossKg = -10],
      [BaseInput EXCEPT !.dailyDeficitKcal = 0],
      [BaseInput EXCEPT !.targetFinalMaintenanceCalories = -2200000],
      [BaseInput EXCEPT !.weeklyReverseIncreaseKcal = 0],
      [BaseInput EXCEPT !.startDate = <<>>],
      [BaseInput EXCEPT !.startDate = <<"next monday">>] }
\* Text of the form dddd-dd-dd that is not a date
UndatedBodies ==
    { [BaseInput EXCEPT !.startDate = s] : s \in {<<2024, 13, 1>>, <<2024, 2, 30>>} }

StrictEnv == [tz |-> UtcZone, lenientDates |-> FALSE]
Requests ==
    ((ValidBodies \cup {ZeroLossBody} \cup OverdrawnBodies \cup InvalidBodies)
        \X {UtcEnv})
        \cup (UndatedBodies \X {UtcEnv, StrictEnv})

\* What the store holds under the second id before the request: nothing, or
\* a value some other writer left there
InitialStores ==
    { [EmptyStore EXCEPT !["kX9p2QmLw0"] = v] :
        v \in {Absent, JsString("malformed", <<>>), JsString("object", <<>>),
               JsString("number", <<>>)} }

ApiInit ==
    /\ \E r \in Requests : input = r[1] /\ env = r[2]
    /\ deploy \in Deploys
    /\ store \in InitialStores
    /\ handler = "received"
    /\ response = Null
    /\ client = [at |-> "submitted", id |-> ""]
    /\ page = Null
    /\ returned = <<>>
    /\ pc = "idle"
    /\ NoActivation

\* lines 21-46: request.json(), the validation, the call of generatePlan
Validate ==
    /\ handler = "received"
    /\ IF InvalidInputData
       THEN /\ handler' = "responded"
            /\ response' = Failure(400, "Invalid input data")
            /\ pc' = pc
       ELSE /\ handler' = "generating"
            /\ response' = response
            /\ pc' = "start"
    /\ UNCHANGED <<input, env, locals, store, deploy, client, page, returned>>

\* lines 71-76: generatePlan threw, the catch block answers 500
GenerationThrew ==
    /\ handler = "generating"
    /\ pc = "thrown"
    /\ handler' = "responded"
    /\ response' = Failure(500, "Failed to create plan.")
    /\ UNCHANGED <<input, env, pc, locals, store, deploy, client, page, returned>>

\* await redis.set(planId, value): it returns, or it throws, and a call that
\* throws (a time-out, a lost reply) may or may not have written
SetOutcomes == {"ok", "throwsUnwritten", "throwsWritten"}

\* Faulty variant: the 201 response sent whatever redis.set did
StorePlan_FailureIgnored ==
    /\ handler = "generating"
    /\ pc = "done"
    /\ IF plan = <<>>
       THEN /\ response' = Failure(500, "Failed to create plan.")
            /\ store' = store
       ELSE \E planId \in PlanIds, outcome \in SetOutcomes :
            /\ store' = IF outcome = "throwsUnwritten" THEN store
                         ELSE [store EXCEPT ![planId] = JSONstringify(plan)]
            /\ response' = Created(planId)
    /\ handler' = "responded"
    /\ UNCHANGED <<input, env, pc, locals, deploy, client, page, returned>>

\* lines 50-69: the empty-plan test, nanoid, redis.set, the 201 response;
\* lines 71-76 when one of them throws
StorePlan ==
    /\ handler = "generating"
    /\ pc = "done"
    /\ IF plan = <<>>
       THEN /\ response' = Failure(500, "Failed to create plan.")
            /\ store' = store
       ELSE \E planId \in PlanIds, outcome \in SetOutcomes :
            /\ store' = IF outcome = "throwsUnwritten" THEN store
                         ELSE [store EXCEPT ![planId] = JSONstringify(plan)]
            /\ response' = IF outcome = "ok" THEN Created(planId)
                            ELSE Failure(500, "Failed to create plan.")
    /\ handler' = "responded"
    /\ UNCHANGED <<input, env, pc, locals, deploy, client, page, returned>>

\* page.tsx lines 129-146: response.ok, the redirect to /plan/<planId>
handleSubmit ==
    /\ handler = "responded"
    /\ client.at = "submitted"
    /\ client' = IF response.status \in 200..299 /\ response.planId # Null
                 THEN [at |-> "plan", id |-> response.planId[1]]
                 ELSE [at |-> "error", id |-> ""]
    /\ UNCHANGED <<input, env, pc, locals, handler, response, store, deploy,
                   page, returned>>

\* redis.get(id): null for a missing key; the stored text, or with
\* automatic deserialization the value it encodes when it is JSON
redisGet(id) ==
    IF store[id].type = "absent" THEN JsNull
    ELSE IF deploy.autoDeserialize /\ store[id].doc # "malformed"
    THEN JSONparse(store[id])
    ELSE store[id]

\* src/unnamed/part_000 lines 20-65: an array is used directly, a string is
\* parsed, anything else is null
getPlanData_StringOrArray(result) ==
    IF result.type \in {"array", "object"}
    THEN IF result.type = "array" THEN Some(result.items) ELSE Null
    ELSE IF result.type = "string"
    THEN IF JSONparse(result).type = "array" THEN Some(JSONparse(result).items) ELSE Null
    ELSE Null

\* src/src/app/plan/[id]/page.tsx lines 170-202: anything but a string is
\* null, a string is parsed
getPlanData_StringOnly(result) ==
    IF result.type # "string" THEN Null
    ELSE IF JSONparse(result).type = "array" THEN Some(JSONparse(result).items)
    ELSE Null

getPlanData(id) ==
    IF deploy.pageVersion = "stringOnly" THEN getPlanData_StringOnly(redisGet(id))
    ELSE getPlanData_StringOrArray(redisGet(id))

\* today >= week.startDate && today <= week.endDate (part_000 line 84): the
\* comparison of two "YYYY-MM-DD" strings, character by character
StringLeq(a, b) ==
    \/ a[1] < b[1]
    \/ a[1] = b[1] /\ a[2] < b[2]
    \/ a[1] = b[1] /\ a[2] = b[2] /\ a[3] <= b[3]
IsCurrentWeek(week, today) ==
    StringLeq(week.startDate, today) /\ StringLeq(today, week.endDate)

\* planData.findIndex(...), line 84: the first index, from 0, or -1
currentWeekIndex(planData, today) ==
    LET found == {k \in 1 .. Len(planData) : IsCurrentWeek(planData[k], today)}
    IN IF found = {} THEN -1
       ELSE (CHOOSE k \in found : \A j \in found : k <= j) - 1

\* line 89
weeksRemainingTotal(planData, today) ==
    LET index == currentWeekIndex(planData, today)
    IN IF index # -1 THEN Len(planData) - planData[index + 1].weekNumber
       ELSE Len(planData)

\* lines 91-100: the records from the current one on, while the phase lasts
RECURSIVE SamePhaseFrom(_, _, _)
SamePhaseFrom(planData, k, phaseName) ==
    IF k <= Len(planData) /\ planData[k].phaseName = phaseName
    THEN 1 + SamePhaseFrom(planData, k + 1, phaseName)
    ELSE 0
weeksRemainingInPhase(planData, today) ==
    LET index == currentWeekIndex(planData, today)
    IN IF index # -1
       THEN SamePhaseFrom(planData, index + 1, planData[index + 1].phaseName)
       ELSE 0

\* lines 114-138: the Current Week box, rendered when there is a current
\* week, with the two numbers it shows; <<>> when it is not rendered
CurrentWeekBox(planData, today) ==
    IF currentWeekIndex(planData, today) = -1 THEN Null
    ELSE Some([weekNumber |-> planData[currentWeekIndex(planData, today) + 1].weekNumber,
               weeksLeftInPhase |-> weeksRemainingInPhase(planData, today) - 1,
               weeksLeftInPlan |-> weeksRemainingTotal(planData, today) - 1])

\* The calendar day n days after (before, n < 0) a day
ShiftedDay(date, n) == CivilFromDays(DaysFromCivil(date[1], date[2], date[3]) + n)

\* The days "today" is drawn from: the first and the last day of every week
\* of the plan, the day before the plan and the day after it
Todays(planData) ==
    IF planData = Null \/ planData[1] = <<>>
    THEN { <<2024, 1, 1>> }
    ELSE LET weeks == planData[1]
         IN { weeks[k].startDate : k \in 1 .. Len(weeks) }
              \cup { weeks[k].endDate : k \in 1 .. Len(weeks) }
              \cup { ShiftedDay(weeks[1].startDate, -1),
                     ShiftedDay(weeks[Len(weeks)].endDate, 1) }

\* PlanPage: the page of /plan/<id> is requested, by the redirected form or
\* by anyone holding a URL, on the day today (new Date().toISOString(), line
\* 83); planData is <<>> when the page renders notFound()
PlanPage ==
    /\ client.at \in {"plan", "error"}
    /\ page = Null
    /\ \E id \in PlanIds, getThrows \in BOOLEAN :
         /\ client.at = "plan" => id = client.id
         /\ LET planData == IF getThrows THEN Null ELSE getPlanData(id)
            IN \E today \in Todays(planData) :
                 page' = Some([id |-> id, storeFailed |-> getThrows,
                               planData |-> planData,
                               today |-> today,
                               currentWeek |->
                                   IF planData = Null THEN Null
                                   ELSE CurrentWeekBox(planData[1], today)])
    /\ UNCHANGED <<input, env, pc, locals, handler, response, store, deploy,
                   client, returned>>

ApiNext ==
    \/ Validate
    \/ Next
    \/ GenerationThrew
    \/ StorePlan
    \/ handleSubmit
    \/ PlanPage

ApiSpec == ApiInit /\ [][ApiNext]_vars

----------------------------------------------------------------------------
(* Vocabulary of the properties *)

Done == pc = "done"
Weeks == 1..Len(plan)

\* The calendar day after a date string, by the civil calendar
NextDay(date) ==
    LET y == date[1]
        m == date[2]
        d == date[3]
    IN IF d < DaysInMonth(y, m) THEN <<y, m, d + 1>>
       ELSE IF m < 12 THEN <<y, m + 1, 1>>
       ELSE <<y + 1, 1, 1>>

RECURSIVE PlusDays(_, _)
PlusDays(date, n) == IF n = 0 THEN date ELSE PlusDays(NextDay(date), n - 1)

IsCalendarDate(date) ==
    /\ date[2] \in 1..12
    /\ date[3] \in 1..DaysInMonth(date[1], date[2])

CountPhase(name) == Cardinality({k \in Weeks : plan[k].phaseName = name})

PhaseRank(name) ==
    CASE name = "Initial Maintenance" -> 1
      [] name = "Calorie Deficit" -> 2
      [] name = "Post-Deficit Maintenance" -> 3
      [] name = "Reverse Diet" -> 4
      [] name = "New Maintenance" -> 5

\* This step appends one record, of the phase named
NewRecord(name) ==
    /\ Len(plan') = Len(plan) + 1
    /\ plan'[Len(plan')].phaseName = name

\* The last record is a Reverse Diet week whose running (unrounded) target
\* has reached targetFinalMaintenanceCalories
CapReached ==
    /\ Len(plan) > 0
    /\ plan[Len(plan)].phaseName = "Reverse Diet"
    /\ TargetReached(CountPhase("Reverse Diet"))

RECURSIVE SumWeeklyChange(_)
SumWeeklyChange(k) ==
    IF k = 0 THEN 0
    ELSE SumWeeklyChange(k - 1) + plan[k].estimatedWeeklyWeightChangeKg

----------------------------------------------------------------------------
(* C1: the plan tiles the calendar from input.startDate: record k has
   weekNumber k, starts 7*(k-1) days after input.startDate, ends 6 days
   after it starts, and the next record starts the day after it ends. *)
C1_CalendarTiling ==
    IsCalendarDate(input.startDate) =>
        \A k \in Weeks :
            /\ plan[k].weekNumber = k
            /\ plan[k].startDate =
                 (IF k = 1 THEN input.startDate
                  ELSE PlusDays(plan[k - 1].startDate, 7))
            /\ plan[k].endDate = PlusDays(plan[k].startDate, 6)
            /\ k > 1 => NextDay(plan[k - 1].endDate) = plan[k].startDate

(* C2: in every record the cumulative weight change is the sum of the
   weekly weight changes of the records up to and including it. *)
C2_CumulativeIsRunningSum ==
    \A k \in Weeks :
        plan[k].estimatedCumulativeWeightChangeKg = SumWeeklyChange(k)

\* A finished plan whose weekly changes are of both signs and all non-zero
C2_Witness ==
    /\ Done
    /\ \A k \in Weeks : plan[k].estimatedWeeklyWeightChangeKg # 0
    /\ \E k \in Weeks : plan[k].estimatedWeeklyWeightChangeKg > 0
    /\ \E k \in Weeks : plan[k].estimatedWeeklyWeightChangeKg < 0
    /\ CountPhase("Reverse Diet") > 0

(* C3: in every record the end weight is the input weight plus the
   cumulative weight change of that record. *)
C3_EndWeightIsInputPlusCumulative ==
    \A k \in Weeks :
        plan[k].estimatedEndWeightKg =
            InputWeightKg + plan[k].estimatedCumulativeWeightChangeKg

\* A finished plan of all five phases that ends off the input weight
C3_Witness ==
    /\ Done
    /\ CountPhase("Reverse Diet") > 0
    /\ plan[Len(plan)].estimatedEndWeightKg # InputWeightKg
    /\ plan[Len(plan)].estimatedCumulativeWeightChangeKg
         # plan[Len(plan)].estimatedWeeklyWeightChangeKg

(* C4: calorieChangeFromPreviousWeek is null in the record of week 1 and
   in no other, and in every later record it is that record's
   targetCalories minus the previous record's targetCalories. *)
C4_CalorieChangeIsTargetDifference ==
    \A k \in Weeks :
        /\ (plan[k].calorieChangeFromPreviousWeek = Null) <=> (plan[k].weekNumber = 1)
        /\ k > 1 =>
             plan[k].calorieChangeFromPreviousWeek
               = Some(plan[k].targetCalories - plan[k - 1].targetCalories)

(* C5: the number of Calorie Deficit records is
   ceil(targetWeightLossKg * 7700 / (dailyDeficitKcal * 7) * 1.1) clamped
   into [4, 52].  With N / D the exact value of the quotient, the count c
   is the ceiling when it lies in 4..52, 4 below and 52 above. *)
C5_DeficitWeeksClamped ==
    pc \in {"postDeficit", "reverse", "newMaintenance", "done"} =>
        LET c == CountPhase("Calorie Deficit")
            N == input.targetWeightLossKg * 7700 * 11 * 10
            D == input.dailyDeficitKcal * 7
        IN /\ 4 <= c /\ c <= 52
           /\ c > 4 => (c - 1) * D < N
           /\ c < 52 => N <= c * D

\* The deficit phase is over and its length is the upper clamp at work:
\* more than 52 weeks were computed
C5_Witness ==
    /\ pc = "postDeficit"
    /\ CountPhase("Calorie Deficit") = 52
    /\ input.targetWeightLossKg * 7700 * 11 * 10 > 52 * input.dailyDeficitKcal * 7

(* C6 as claimed: a Reverse Diet record never has targetCalories above
   targetFinalMaintenanceCalories, and once a Reverse Diet record has been
   emitted whose running target reached that value, no further Reverse
   Diet record is emitted. *)
C6_Original_ReverseNeverAboveTarget ==
    [][ /\ NewRecord("Reverse Diet") =>
             plan'[Len(plan')].targetCalories * KcalScale
                <= input.targetFinalMaintenanceCalories
        /\ CapReached => ~NewRecord("Reverse Diet") ]_vars

(* C6 amended: the running (unrounded) target of a Reverse Diet week never
   exceeds targetFinalMaintenanceCalories and the record's targetCalories
   never exceeds Math.round(targetFinalMaintenanceCalories); once a Reverse
   Diet record has been emitted whose running target reached the final
   value, no further Reverse Diet record is emitted. *)
C6_ReverseCappedAndStops ==
    [][ /\ NewRecord("Reverse Diet") =>
             /\ lastWeekCalories'[1] <= input.targetFinalMaintenanceCalories
             /\ plan'[Len(plan')].targetCalories
                  <= MathRound(input.targetFinalMaintenanceCalories)
        /\ CapReached => ~NewRecord("Reverse Diet") ]_vars

\* The reverse phase has just ended on its cap, a fractional value that the
\* record shows rounded up, after an increase cut short by the cap
C6_Witness ==
    /\ pc = "newMaintenance"
    /\ CapReached
    /\ CountPhase("Reverse Diet") >= 2
    /\ plan[Len(plan)].targetCalories * KcalScale > input.targetFinalMaintenanceCalories
    /\ plan[Len(plan)].calorieChangeFromPreviousWeek[1] * KcalScale
         < input.weeklyReverseIncreaseKcal - KcalScale

(* C7: the phases come in the fixed order, none reappears after a later one
   has started, nothing follows New Maintenance, and a returned plan is
   1 Initial Maintenance, 4..52 Calorie Deficit, 2 Post-Deficit
   Maintenance, any number of Reverse Diet and 1 final New Maintenance. *)
C7_PhaseShape ==
    /\ \A k \in Weeks :
         k > 1 => PhaseRank(plan[k - 1].phaseName) <= PhaseRank(plan[k].phaseName)
    /\ \A k \in Weeks : plan[k].phaseName = "New Maintenance" => k = Len(plan)
    /\ Done =>
         /\ CountPhase("Initial Maintenance") = 1
         /\ CountPhase("Calorie Deficit") \in 4..52
         /\ CountPhase("Post-Deficit Maintenance") = 2
         /\ CountPhase("New Maintenance") = 1
         /\ plan[1].phaseName = "Initial Maintenance"
         /\ plan[Len(plan)].phaseName = "New Maintenance"

\* A returned plan with all five phases, the deficit strictly inside its clamp
C7_Witness ==
    /\ Done
    /\ CountPhase("Calorie Deficit") \in 5..51
    /\ CountPhase("Reverse Diet") > 0

(* C8: a returned plan has at least 8 records. *)
C8_AtLeastEightWeeks == Done => Len(plan) >= 8

\* The minimum is attained: no weight to lose and no calories to add back
C8_Witness ==
    /\ Done
    /\ Len(plan) = 8
    /\ input.targetWeightLossKg = 0
    /\ CountPhase("Reverse Diet") = 0

(* C9: for the example input (age 30, 70 kg, 170 cm, female, 2000 kcal,
   2024-01-01, lightlyActive, 5 kg, 500 kcal, 2200 kcal, 100 kcal) the
   first record is week 1, Initial Maintenance, 2000 kcal, change null; the
   last is New Maintenance, 2200 kcal. *)
C9_Example ==
    (Done /\ input = BaseInput) =>
        /\ plan[1].weekNumber = 1
        /\ plan[1].phaseName = "Initial Maintenance"
        /\ plan[1].targetCalories = 2000
        /\ plan[1].calorieChangeFromPreviousWeek = Null
        /\ plan[Len(plan)].phaseName = "New Maintenance"
        /\ plan[Len(plan)].targetCalories = 2200

\* The example's plan has been returned: 1 + 13 + 2 + 7 + 1 weeks
C9_Witness ==
    /\ Done
    /\ input = BaseInput
    /\ Len(plan) = 24

(* C10: when input.startDate does not parse to a valid date, generatePlan
   throws before any record exists: the call never gets past its start, the
   plan stays empty and the running state is never set up. *)
C10_InvalidDateThrowsFirst ==
    /\ startDateInput.nan =>
         /\ pc \in {"start", "thrown"}
         /\ plan = <<>>
         /\ currentWeekNumber = 0
         /\ lastWeekCalories = Null
    /\ pc = "thrown" => startDateInput.nan

\* The call has thrown on a string of the right shape that names no date
C10_Witness ==
    /\ pc = "thrown"
    /\ input.startDate = <<2024, 13, 1>>

----------------------------------------------------------------------------
(* The adaptation multiplier, calculations.ts lines 40-50 *)

\* The weeksInDeficit values generatePlan has passed, or is about to pass, to
\* calculateAdaptationFactor: i in the deficit loop (line 134), and
\* deficitDurationWeeks in the post-deficit loop (line 188)
WeeksInDeficitPassed ==
    IF pc = "deficit" THEN 0 .. Min(i, deficitDurationWeeks - 1)
    ELSE IF pc \in {"postDeficit", "reverse", "newMaintenance", "done"}
    THEN 0 .. deficitDurationWeeks
    ELSE {}

\* C13, as stated: calculateAdaptationFactor(0) = 1, and every multiplier the
\* engine computes lies in the half-open interval (1 - MAX_ADAPTATION, 1]:
\* strictly above 0.85.
C13_Original_StrictlyAboveCap ==
    \A w \in WeeksInDeficitPassed :
        /\ (w = 0 => calculateAdaptationFactor(w) = FactorScale)
        /\ calculateAdaptationFactor(w) > FactorScale - MAX_ADAPTATION
        /\ calculateAdaptationFactor(w) <= FactorScale

\* C13, amended: calculateAdaptationFactor(0) = 1, and every multiplier the
\* engine computes lies in the closed interval [1 - MAX_ADAPTATION, 1]; the
\* lower end 0.85 is reached, and it is reached exactly from week 39 on.
C13_WithinClosedInterval ==
    \A w \in WeeksInDeficitPassed :
        /\ (w = 0 => calculateAdaptationFactor(w) = FactorScale)
        /\ calculateAdaptationFactor(w) >= FactorScale - MAX_ADAPTATION
        /\ calculateAdaptationFactor(w) <= FactorScale
        /\ (calculateAdaptationFactor(w) = FactorScale - MAX_ADAPTATION <=> w >= 39)

\* A deficit of 52 weeks has run and the post-deficit weeks used its length
C13_Witness ==
    /\ Done
    /\ deficitDurationWeeks = 52
    /\ calculateAdaptationFactor(deficitDurationWeeks) = FactorScale - MAX_ADAPTATION

\* The weeksInDeficit value passed in the current state: i by the deficit
\* loop (line 134), deficitDurationWeeks by the post-deficit loop (line 188)
WeekInDeficitNow ==
    IF pc = "deficit" /\ i < deficitDurationWeeks THEN {i}
    ELSE IF pc = "postDeficit" THEN {deficitDurationWeeks}
    ELSE {}

\* C14, as stated: the multiplier strictly decreases with the weeks in
\* deficit: the multiplier of the week now passed is strictly below that of
\* every earlier week the engine passed.
C14_Original_StrictlyDecreasing ==
    \A w2 \in WeekInDeficitNow : \A w1 \in 0 .. w2 - 1 :
        calculateAdaptationFactor(w2) < calculateAdaptationFactor(w1)

\* C14, amended: the multiplier never increases with the weeks in deficit,
\* and it strictly decreases as long as the earlier week is before week 39,
\* where the cap is reached; from week 39 on it is constant.
C14_DecreasingUntilCap ==
    \A w2 \in WeekInDeficitNow : \A w1 \in 0 .. w2 - 1 :
        /\ calculateAdaptationFactor(w2) <= calculateAdaptationFactor(w1)
        /\ (w1 < 39 => calculateAdaptationFactor(w2) < calculateAdaptationFactor(w1))
        /\ (w1 >= 39 => calculateAdaptationFactor(w2) = calculateAdaptationFactor(w1))

\* The deficit loop is past week 39 and still running
C14_Witness ==
    /\ pc = "deficit"
    /\ i > 39
    /\ i < deficitDurationWeeks

----------------------------------------------------------------------------
\* C15: when targetFinalMaintenanceCalories is at or below the post-deficit
\* calories (currentMaintenanceCalories - dailyDeficitKcal), the finished plan
\* has no 'Reverse Diet' record, its last record is the 'New Maintenance'
\* week with targetCalories = round(targetFinalMaintenanceCalories), and the
\* two records before it are the two 'Post-Deficit Maintenance' weeks.
C15_NoReverseWhenTargetNotAbove ==
    (Done /\ input.targetFinalMaintenanceCalories <= postDeficitCalories) =>
        /\ CountPhase("Reverse Diet") = 0
        /\ CountPhase("Post-Deficit Maintenance") = 2
        /\ Len(plan) >= 3
        /\ plan[Len(plan)].phaseName = "New Maintenance"
        /\ plan[Len(plan)].targetCalories =
               MathRound(input.targetFinalMaintenanceCalories)
        /\ plan[Len(plan) - 1].phaseName = "Post-Deficit Maintenance"
        /\ plan[Len(plan) - 2].phaseName = "Post-Deficit Maintenance"
        /\ plan[Len(plan)].weekNumber = plan[Len(plan) - 1].weekNumber + 1

\* A plan finished whose final target equals the post-deficit calories
C15_Witness ==
    /\ Done
    /\ input.targetFinalMaintenanceCalories = postDeficitCalories
    /\ reverseDurationWeeks = 0
    /\ plan[Len(plan)].phaseName = "New Maintenance"

----------------------------------------------------------------------------
\* C16: in every record, estimatedWeeklyBalance equals
\* 7 * (targetCalories - estimatedTdeeForPhase), computed from the record's
\* own (rounded) targetCalories and estimatedTdeeForPhase fields.
C16_BalanceFromRecordFields ==
    \A k \in Weeks :
        plan[k].estimatedWeeklyBalance =
            7 * (plan[k].targetCalories - plan[k].estimatedTdeeForPhase)

----------------------------------------------------------------------------
(* Activity levels per phase *)

\* The activity level the claim assigns to a phase: the phase's own
\* override when present, input.initialActivityLevel otherwise
LevelOrInitial(override) ==
    IF override = "undefined" THEN input.initialActivityLevel ELSE override

\* The weight at the end of the last record of the phases ranked below r,
\* the weight a later phase computes its BMR from
WeightBeforeRank(r) ==
    LET earlier == {k \in Weeks : PhaseRank(plan[k].phaseName) < r}
    IN IF earlier = {} THEN InputWeightKg
       ELSE plan[CHOOSE k \in earlier : \A m \in earlier : m <= k].estimatedEndWeightKg

\* The daily expenditure of a body of the given weight at the given level
TdeeAt(weight, level) ==
    MulDiv(calculateBMR(weight, input.heightCm, input.age, input.sex),
           activityMultipliers[level], 1000)

\* C17: the base expenditure of each phase is the BMR times the multiplier
\* of that phase's activity level: the initial level in Initial Maintenance,
\* deficitActivityLevel-or-initial in Calorie Deficit and Post-Deficit
\* Maintenance, reverseActivityLevel-or-initial in Reverse Diet and
\* newMaintenanceActivityLevel-or-initial in New Maintenance; no phase's
\* expenditure depends on another phase's override.
C17_PhaseActivityLevels ==
    /\ pc = "initialMaintenance" =>
           phaseBaseTdee = TdeeAt(InputWeightKg, input.initialActivityLevel)
    /\ pc = "deficit" =>
           phaseBaseTdee = TdeeAt(InputWeightKg, LevelOrInitial(input.deficitActivityLevel))
    /\ pc = "postDeficit" =>
           phaseBaseTdee = TdeeAt(WeightBeforeRank(3), LevelOrInitial(input.deficitActivityLevel))
    /\ pc = "reverse" =>
           phaseBaseTdee = TdeeAt(WeightBeforeRank(4), LevelOrInitial(input.reverseActivityLevel))
    /\ pc = "done" =>
           phaseBaseTdee =
               TdeeAt(WeightBeforeRank(5), LevelOrInitial(input.newMaintenanceActivityLevel))
    /\ \A k \in Weeks :
           /\ plan[k].phaseName = "Initial Maintenance" =>
                  plan[k].estimatedTdeeForPhase =
                      MathRound(TdeeAt(InputWeightKg, input.initialActivityLevel))
           /\ plan[k].phaseName = "New Maintenance" =>
                  plan[k].estimatedTdeeForPhase =
                      MathRound(TdeeAt(WeightBeforeRank(5),
                                       LevelOrInitial(input.newMaintenanceActivityLevel)))

\* A plan finished with some overrides present and another absent, each
\* present override differing from the initial level
C17_Witness ==
    /\ Done
    /\ input.deficitActivityLevel \notin {"undefined", input.initialActivityLevel}
    /\ input.reverseActivityLevel = "undefined"
    /\ input.newMaintenanceActivityLevel \notin {"undefined", input.initialActivityLevel}

----------------------------------------------------------------------------
(* The deficit duration, calculations.ts lines 122-130 *)

\* deficitDurationWeeks has been computed (line 125 has run)
DurationComputed ==
    pc \in {"deficit", "postDeficit", "reverse", "newMaintenance", "done"}

\* weeks is ceil(targetWeightLossKg * 7700 / (dailyDeficitKcal * 7) * percent / 100)
\* clamped to [4, 52]: weeks - 1 < the quotient <= weeks, unless a clamp binds
IsClampedCeil(weeks, percent) ==
    LET energy == input.targetWeightLossKg * KCAL_PER_KG_FAT * percent
        perWeek == input.dailyDeficitKcal * 7
    IN /\ weeks \in 4 .. 52
       /\ (weeks > 4 => (weeks - 1) * perWeek < energy)
       /\ (weeks < 52 => energy <= weeks * perWeek)

\* C19, as stated: the unclamped number of deficit weeks is
\* ceil(targetWeightLossKg * 7700 / (dailyDeficitKcal * 7) * 1.2), 20% extra.
C19_Original_TwentyPercentExtra ==
    DurationComputed => IsClampedCeil(deficitDurationWeeks, 120)

\* C19, amended: the unclamped number of deficit weeks is
\* ceil(targetWeightLossKg * 7700 / (dailyDeficitKcal * 7) * 1.1), 10% extra;
\* deficitDurationWeeks is that number clamped to [4, 52].
C19_TenPercentExtra ==
    DurationComputed => IsClampedCeil(deficitDurationWeeks, 110)

\* The spec's example: 5 kg at 500 kcal/day is 11 weeks, 13 with 10% extra
\* (12.1 rounded up), where 20% extra would give 14
C19_Witness ==
    /\ pc = "deficit"
    /\ input.targetWeightLossKg = 50
    /\ input.dailyDeficitKcal = 500000
    /\ deficitDurationWeeks = 13

----------------------------------------------------------------------------
(* Successive calls of generatePlan in one process, calculations.ts lines
   60-327: each call runs on a new activation, whose locals the declarations
   of lines 61-79 create; the process keeps its time zone *)

\* The number of calls a process makes
MaxCalls == 3

CallInputs ==
    { BaseInput,
      [BaseInput EXCEPT !.startDate = <<2024, 3, 25>>, !.dailyDeficitKcal = 500800],
      [BaseInput EXCEPT !.targetFinalMaintenanceCalories = 1500000],
      [BaseInput EXCEPT !.startDate = <<2024, 13, 1>>] }

CallEnvs ==
    { e \in Envs : e.lenientDates /\ e.tz.name \in {"UTC", "Europe/London"} }

CallsInit ==
    /\ input \in CallInputs
    /\ env \in CallEnvs
    /\ NoService
    /\ pc = "start"
    /\ NoActivation

\* line 326, return plan, or the throw of line 71 reaching the caller
ReturnPlan ==
    /\ pc \in {"done", "thrown"}
    /\ returned' = Append(returned,
                          [input |-> input, threw |-> pc = "thrown", plan |-> plan])
    /\ pc' = "returned"
    /\ UNCHANGED <<input, env, locals, handler, response, store, deploy, client, page>>

\* Faulty variant: plan is kept between calls, as a module-level array would be
Invoke_PlanKept ==
    /\ pc = "returned"
    /\ Len(returned) < MaxCalls
    /\ input' \in CallInputs
    /\ pc' = "start"
    /\ plan' = plan
    /\ currentDate' = 0
    /\ currentWeekNumber' = 0
    /\ cumulativeWeightChangeKg' = 0
    /\ currentWeightKg' = 0
    /\ lastWeekCalories' = Null
    /\ i' = 0
    /\ bmr' = 0
    /\ deficitDurationWeeks' = 0
    /\ phaseBaseTdee' = 0
    /\ currentReverseCalories' = 0
    /\ reverseDurationWeeks' = 0
    /\ UNCHANGED <<env, svc>>

\* line 60: generatePlan(input) is called again; line 61: const plan = []
Invoke ==
    /\ pc = "returned"
    /\ Len(returned) < MaxCalls
    /\ input' \in CallInputs
    /\ pc' = "start"
    /\ plan' = <<>>
    /\ currentDate' = 0
    /\ currentWeekNumber' = 0
    /\ cumulativeWeightChangeKg' = 0
    /\ currentWeightKg' = 0
    /\ lastWeekCalories' = Null
    /\ i' = 0
    /\ bmr' = 0
    /\ deficitDurationWeeks' = 0
    /\ phaseBaseTdee' = 0
    /\ currentReverseCalories' = 0
    /\ reverseDurationWeeks' = 0
    /\ UNCHANGED <<env, svc>>

CallsNext ==
    \/ Next
    \/ ReturnPlan
    \/ Invoke

CallsSpec == CallsInit /\ [][CallsNext]_vars

\* The calls that ended
Ended == 1 .. Len(returned)

\* C20: generatePlan is deterministic and stateless: two calls that ended
\* with equal PlanInput values gave equal results (the same plan, or both
\* threw), whatever calls ran before or between them; and no step of a call
\* changes the PlanInput it was given: input changes only when the next call
\* is made.
C20_DeterministicAndStateless ==
    /\ [](\A a, b \in Ended :
             returned[a].input = returned[b].input =>
                 /\ returned[a].threw = returned[b].threw
                 /\ returned[a].plan = returned[b].plan)
    /\ [][input' # input => (pc = "returned" /\ pc' = "start")]_vars

\* The same input was passed to the first and the third call, another to the
\* second, and the three calls ended with plans
C20_Witness ==
    /\ Len(returned) = 3
    /\ returned[1].input = returned[3].input
    /\ returned[2].input # returned[1].input
    /\ \A a \in Ended : ~returned[a].threw /\ Len(returned[a].plan) >= 8

----------------------------------------------------------------------------
(* The create-plan route and the plan page *)

Responded == handler = "responded"

\* The ids under which a plan (the text of a JSON array) is stored
WrittenIds == {id \in PlanIds : store[id].doc = "array"}

\* C11: a plan is written to the store only after the validation passed and
\* generatePlan returned a non-empty plan; a 201 response carries a planId
\* and is produced only once that id holds the plan; every other response is
\* a 400 (validation failed) or a 500 without planId; when the validation or
\* the generation failed nothing was written; and the form goes to a plan
\* page only after a 201.
C11_StoreAfterChecksResponseAfterStore ==
    /\ WrittenIds # {} =>
           /\ ~InvalidInputData
           /\ pc = "done"
           /\ plan # <<>>
           /\ \A id \in WrittenIds : store[id] = JSONstringify(plan)
    /\ Responded =>
           /\ response.status \in {201, 400, 500}
           /\ response.status = 201 =>
                  /\ response.planId # Null
                  /\ response.planId[1] \in WrittenIds
           /\ response.status # 201 => response.planId = Null
           /\ response.status = 400 <=> InvalidInputData
           /\ response.status = 400 => WrittenIds = {}
           /\ (response.status = 500 /\ pc = "thrown") => WrittenIds = {}
    /\ client.at = "plan" =>
           /\ response.status = 201
           /\ client.id = response.planId[1]

\* A request answered 201 after its plan was stored, and the form redirected
C11_Witness ==
    /\ Responded
    /\ response.status = 201
    /\ store[response.planId[1]] = JSONstringify(plan)
    /\ client.at = "plan"

\* Every field of the body except targetWeightLossKg passes its test
OtherFieldsValid ==
    /\ input.age > 0
    /\ input.weightKg > 0
    /\ input.heightCm > 0
    /\ input.sex \in {"male", "female"}
    /\ input.currentMaintenanceCalories > 0
    /\ input.initialActivityLevel \in DOMAIN activityMultipliers
    /\ input.dailyDeficitKcal > 0
    /\ input.targetFinalMaintenanceCalories > 0
    /\ input.weeklyReverseIncreaseKcal > 0
    /\ IsCalendarDate(input.startDate)

\* C12: a request with targetWeightLossKg = 0 and every other field valid is
\* not answered 400: its plan is generated, and the answer is the 201 of a
\* stored plan unless the store itself failed.
C12_ZeroTargetLossAccepted ==
    (Responded /\ input.targetWeightLossKg = 0 /\ OtherFieldsValid) =>
        /\ response.status # 400
        /\ pc = "done"
        /\ response.status = 201 => response.planId[1] \in WrittenIds

\* C18: getPlanData returns the stored plan whenever the store holds the
\* text of a JSON array under the id and the store call did not fail, in
\* whichever representation the client hands the value over; it returns null
\* only when the key is absent, the value is not an array, the text does not
\* parse or the store call failed.  Hence the plan of a 201 response is
\* found by the plan page.
C18_StoredPlanIsFound ==
    page # Null =>
        LET fetched == page[1]
            value == store[fetched.id]
        IN /\ (value.doc = "array" /\ ~fetched.storeFailed) =>
                  fetched.planData = Some(value.items)
           /\ fetched.planData = Null =>
                  \/ value.type = "absent"
                  \/ value.doc # "array"
                  \/ fetched.storeFailed
           /\ (response.status = 201 /\ fetched.id = response.planId[1]
                  /\ ~fetched.storeFailed) =>
                  fetched.planData = Some(plan)

----------------------------------------------------------------------------
(* Per-phase arithmetic of the records *)

Abs(x) == IF x < 0 THEN -x ELSE x

\* The record this step appends
NewWeek == plan'[Len(plan')]

\* weeklyBalance / (7700 * efficiency) in kg, efficiency in 1/1000
KgFor(weeklyBalance, efficiency) == ScaledDiv(weeklyBalance, 7700 * efficiency, 7)

\* C21: the i-th Calorie Deficit week (i from 0) stores the weight change
\* weeklyBalance / (7700 * e_i), with e_i = max(0.9, 1 - 0.003 * i) and
\* weeklyBalance the unrounded 7 * (target - adapted TDEE); e_0 = 1, e_i is
\* never below 0.9, and the magnitude of the change is not smaller than at
\* efficiency 1.
C21_DeficitEfficiency ==
    [][ NewRecord("Calorie Deficit") =>
          LET e == Max(900, 1000 - 3 * i)
              adaptedTdee == MulDiv(phaseBaseTdee, calculateAdaptationFactor(i), FactorScale)
              weeklyBalance == 7 * (input.currentMaintenanceCalories
                                      - input.dailyDeficitKcal) - 7 * adaptedTdee
          IN /\ NewWeek.estimatedWeeklyWeightChangeKg = KgFor(weeklyBalance, e)
             /\ NewWeek.estimatedWeeklyBalance = MathRound(weeklyBalance)
             /\ e \in 900 .. 1000
             /\ (i = 0 => e = 1000)
             /\ (i >= 34 => e = 900)
             /\ Abs(NewWeek.estimatedWeeklyWeightChangeKg)
                    >= Abs(KgFor(weeklyBalance, 1000)) ]_vars

\* A deficit past its 35th week, where the floor of 0.9 applies, with weight
\* being lost
C21_Witness ==
    /\ pc = "deficit"
    /\ i > 35
    /\ plan[Len(plan)].phaseName = "Calorie Deficit"
    /\ plan[Len(plan)].estimatedWeeklyWeightChangeKg < 0

\* Mifflin-St Jeor on the input weight, in 1/1000 kcal: 10 * weight (the
\* input weight is in 1/10 kg) + 6.25 * height - 5 * age, + 5 or - 161
InputBmr ==
    input.weightKg * 1000 + 6250 * input.heightCm - 5000 * input.age
        + (IF input.sex = "male" THEN 5000 ELSE -161000)

\* C22: the i-th Calorie Deficit record (i from 0) shows the expenditure
\* BMR(input weight) * multiplier(deficit-or-initial level) *
\* calculateAdaptationFactor(i), rounded: the BMR is that of the input
\* weight, the first deficit week has factor 1, and every deficit record's
\* target is round(currentMaintenanceCalories - dailyDeficitKcal).
C22_DeficitExpenditureBasis ==
    \A k \in Weeks :
        plan[k].phaseName = "Calorie Deficit" =>
            LET week == k - 1 - WEEKS_INITIAL_MAINTENANCE
                base == MulDiv(InputBmr,
                               activityMultipliers[LevelOrInitial(input.deficitActivityLevel)],
                               1000)
            IN /\ week >= 0
               /\ plan[k].estimatedTdeeForPhase =
                      MathRound(MulDiv(base, calculateAdaptationFactor(week), FactorScale))
               /\ (week = 0 => plan[k].estimatedTdeeForPhase = MathRound(base))
               /\ plan[k].targetCalories =
                      MathRound(input.currentMaintenanceCalories - input.dailyDeficitKcal)

\* A deficit under way after an Initial Maintenance week that moved the
\* weight by more than 0.1 kg
C22_Witness ==
    /\ pc = "deficit"
    /\ i >= 2
    /\ Abs(plan[1].estimatedWeeklyWeightChangeKg) > KgScale \div 10

\* C23: in Post-Deficit Maintenance the expenditure multiplier of the week
\* now computed is at least the deficit-end adaptation factor
\* calculateAdaptationFactor(deficitDurationWeeks) and at most 1, and the
\* multiplier of the second week is at least that of the first.
C23_PostDeficitRecovers ==
    (pc = "postDeficit" /\ i < WEEKS_POST_DEFICIT_MAINTENANCE) =>
        /\ recoveryFactor(i) >= calculateAdaptationFactor(deficitDurationWeeks)
        /\ recoveryFactor(i) <= FactorScale
        /\ (i >= 1 => recoveryFactor(i) >= recoveryFactor(i - 1))

\* min(1.0, 0.95 + 0.015 * (2 + week)), in 1/10^4
ReverseMultiplier(week) == Min(10000, 9500 + 150 * (2 + week))

\* C24: the i-th Reverse Diet week (i from 0) shows the phase's base
\* expenditure times min(1.0, 0.95 + 0.015 * (2 + i)); that multiplier never
\* decreases from one week to the next, never exceeds 1.0, and is exactly 1.0
\* from the third reverse week on, whatever the length of the deficit.
C24_ReverseRecoveryFactor ==
    [][ NewRecord("Reverse Diet") =>
          /\ NewWeek.estimatedTdeeForPhase =
                 MathRound(MulDiv(phaseBaseTdee, ReverseMultiplier(i), FactorScale))
          /\ ReverseMultiplier(i) <= FactorScale
          /\ (i >= 1 => ReverseMultiplier(i) >= ReverseMultiplier(i - 1))
          /\ (i = 0 => ReverseMultiplier(i) = 9800)
          /\ (i >= 2 => /\ ReverseMultiplier(i) = FactorScale
                        /\ NewWeek.estimatedTdeeForPhase = MathRound(phaseBaseTdee)) ]_vars

\* A reverse phase in its fourth week or later, after a deficit that was
\* not of the minimum length
C24_Witness ==
    /\ pc = "reverse"
    /\ i >= 3
    /\ deficitDurationWeeks > 4
    /\ plan[Len(plan)].phaseName = "Reverse Diet"

Sign(x) == IF x > 0 THEN 1 ELSE IF x < 0 THEN -1 ELSE 0

\* C25: a Reverse Diet week stores the weight change weeklyBalance / (7700 * s)
\* with s = 0.9 when the unrounded weekly balance (7 * the running target
\* - 7 * that week's expenditure) is strictly positive and s = 1.0 otherwise;
\* the weight change has the sign of the balance.
C25_ReverseSurplusEfficiency ==
    [][ NewRecord("Reverse Diet") =>
          LET reverseTdee == MulDiv(phaseBaseTdee, ReverseMultiplier(i), FactorScale)
              weeklyBalance == 7 * lastWeekCalories'[1] - 7 * reverseTdee
              s == IF weeklyBalance > 0 THEN 900 ELSE 1000
          IN /\ NewWeek.estimatedWeeklyWeightChangeKg = KgFor(weeklyBalance, s)
             /\ NewWeek.estimatedWeeklyBalance = MathRound(weeklyBalance)
             /\ Sign(NewWeek.estimatedWeeklyWeightChangeKg) = Sign(weeklyBalance) ]_vars

\* A finished plan whose reverse phase has a week of deficit and a week of
\* surplus
C25_Witness ==
    /\ Done
    /\ \E k \in Weeks : /\ plan[k].phaseName = "Reverse Diet"
                         /\ plan[k].estimatedWeeklyWeightChangeKg < 0
    /\ \E k \in Weeks : /\ plan[k].phaseName = "Reverse Diet"
                         /\ plan[k].estimatedWeeklyWeightChangeKg > 0

\* The index of record k within its phase, from 0
WeekOfPhase(k) ==
    Cardinality({m \in 1 .. k - 1 : plan[m].phaseName = plan[k].phaseName})

\* The phase's base expenditure as the claim gives it: from the end weight
\* of the last record of the phases before it, at the phase's level
BaseOfPhase(name) ==
    CASE name = "Post-Deficit Maintenance" ->
             TdeeAt(WeightBeforeRank(3), LevelOrInitial(input.deficitActivityLevel))
      [] name = "Reverse Diet" ->
             TdeeAt(WeightBeforeRank(4), LevelOrInitial(input.reverseActivityLevel))
      [] name = "New Maintenance" ->
             TdeeAt(WeightBeforeRank(5), LevelOrInitial(input.newMaintenanceActivityLevel))

\* C26: every Post-Deficit Maintenance, Reverse Diet and New Maintenance
\* record shows an expenditure built on one base per phase, the expenditure
\* at the weight the preceding phase ended on: the weeks of a phase share
\* the base whatever the weight did inside the phase.  New Maintenance shows
\* the base itself (multiplier 1) and converts its balance at efficiency 1.
C26_PhaseBaseFromStartWeight ==
    \A k \in Weeks :
        LET name == plan[k].phaseName
        IN /\ name = "Post-Deficit Maintenance" =>
                  plan[k].estimatedTdeeForPhase =
                      MathRound(MulDiv(BaseOfPhase(name), recoveryFactor(WeekOfPhase(k)),
                                       FactorScale))
           /\ name = "Reverse Diet" =>
                  plan[k].estimatedTdeeForPhase =
                      MathRound(MulDiv(BaseOfPhase(name), ReverseMultiplier(WeekOfPhase(k)),
                                       FactorScale))
           /\ name = "New Maintenance" =>
                  /\ plan[k].estimatedTdeeForPhase = MathRound(BaseOfPhase(name))
                  /\ plan[k].estimatedWeeklyWeightChangeKg =
                         KgFor(7 * input.targetFinalMaintenanceCalories
                                 - 7 * BaseOfPhase(name), 1000)

\* A finished plan with several reverse weeks, whose weight moved by more
\* than 0.2 kg inside the Post-Deficit Maintenance phase
C26_Witness ==
    /\ Done
    /\ CountPhase("Reverse Diet") >= 3
    /\ \E k \in Weeks :
          /\ plan[k].phaseName = "Post-Deficit Maintenance"
          /\ Abs(plan[k].estimatedWeeklyWeightChangeKg) > KgScale \div 5

----------------------------------------------------------------------------
(* The length of the plan *)

\* The Reverse Diet records of the plan, and the running target (the double
\* currentReverseCalories) of the last of them
ReverseWeeks == CountPhase("Reverse Diet")
LastRunningTarget == currentReverseCalories64(ReverseWeeks)
PlannedReverseWeeks == Max(0, reverseDurationWeeks)

\* R of the formula in real numbers: the decimal inputs divided exactly
ExactReverseWeeks ==
    Max(0, CeilDiv(input.targetFinalMaintenanceCalories - postDeficitCalories,
                   input.weeklyReverseIncreaseKcal))

\* The four calorie inputs are whole numbers of kilocalories
WholeCalories ==
    \A v \in { input.currentMaintenanceCalories, input.dailyDeficitKcal,
                input.targetFinalMaintenanceCalories,
                input.weeklyReverseIncreaseKcal } : v % KcalScale = 0

(* C27, as stated: the plan has exactly 1 + D + 2 + R + 1 records, D the
   clamped ceiling of targetWeightLossKg*7700/(dailyDeficitKcal*7)*1.1 and
   R = max(0, reverseDurationWeeks) the ceiling the code computes: the break
   never ends the reverse loop before its last planned iteration, and the
   running target of the last Reverse Diet record is
   targetFinalMaintenanceCalories. *)
C27_Original_BreakNeverShortens ==
    Done =>
        /\ IsClampedCeil(deficitDurationWeeks, 110)
        /\ Len(plan) = WEEKS_INITIAL_MAINTENANCE + deficitDurationWeeks
                          + WEEKS_POST_DEFICIT_MAINTENANCE + PlannedReverseWeeks + 1
        /\ ReverseWeeks = PlannedReverseWeeks
        /\ (ReverseWeeks >= 1 => LastRunningTarget = targetFinalMaintenanceCalories64)

(* C27, amended: the plan has 1 + D + 2 + W + 1 records, D as stated and W
   the number of Reverse Diet records, which is R = max(0,
   reverseDurationWeeks) or R - 1: the reverse loop ends at the first
   iteration whose running target reaches targetFinalMaintenanceCalories
   (the break) or after R iterations, whichever comes first, no earlier
   running target having reached it.  R, the ceiling of the quotient of
   doubles, is the ceiling of the exact quotient or one more, and so is W.
   When the loop ends by its count the last running target is below the
   final value.  For whole-number calorie inputs W = R is the exact
   ceiling, the break fires in the last planned iteration and the last
   running target is targetFinalMaintenanceCalories.  R has no upper
   clamp. *)
C27_LengthUpToBreak ==
    Done =>
        /\ IsClampedCeil(deficitDurationWeeks, 110)
        /\ Len(plan) = WEEKS_INITIAL_MAINTENANCE + deficitDurationWeeks
                          + WEEKS_POST_DEFICIT_MAINTENANCE + ReverseWeeks + 1
        /\ ReverseWeeks \in { PlannedReverseWeeks - 1, PlannedReverseWeeks } \cap Nat
        /\ PlannedReverseWeeks \in { ExactReverseWeeks, ExactReverseWeeks + 1 }
        /\ ReverseWeeks \in { ExactReverseWeeks, ExactReverseWeeks + 1 }
        /\ \A k \in 1 .. ReverseWeeks - 1 : ~TargetReached(k)
        /\ (ReverseWeeks < PlannedReverseWeeks => TargetReached(ReverseWeeks))
        /\ (ReverseWeeks >= 1 =>
              \/ LastRunningTarget = targetFinalMaintenanceCalories64
              \/ /\ ReverseWeeks = PlannedReverseWeeks
                 /\ LessThan(LastRunningTarget, targetFinalMaintenanceCalories64))
        /\ (WholeCalories =>
              /\ ReverseWeeks = ExactReverseWeeks
              /\ PlannedReverseWeeks = ExactReverseWeeks
              /\ (ReverseWeeks >= 1 =>
                    LastRunningTarget = targetFinalMaintenanceCalories64))

\* 2000 - 500 kcal raised by 50.2 a week to 1550.2: two weeks are planned
\* (the quotient of the doubles is above 1) and the first reaches the target
C27_Witness ==
    /\ Done
    /\ input.targetFinalMaintenanceCalories = 1550200
    /\ input.weeklyReverseIncreaseKcal = 50200
    /\ reverseDurationWeeks = 2
    /\ ReverseWeeks = 1
    /\ TargetReached(1)

----------------------------------------------------------------------------
(* The plan page's Current Week box *)

\* The page found the plan and showed the box
BoxShown == page # Null /\ page[1].planData # Null /\ page[1].currentWeek # Null
ShownPlan == page[1].planData[1]
ShownBox == page[1].currentWeek[1]

\* The weeks after week k that continue its phase without interruption
RECURSIVE LaterOfSamePhase(_, _)
LaterOfSamePhase(weeks, k) ==
    IF k < Len(weeks) /\ weeks[k + 1].phaseName = weeks[k].phaseName
    THEN 1 + LaterOfSamePhase(weeks, k + 1)
    ELSE 0

(* C28: when today falls inside week k of an N-week plan, the box shows
   N - k as "Weeks Left in Plan", never a negative number, and as "Weeks
   Left in Phase" the number of later consecutive weeks of the same
   phaseName. *)
C28_WeeksLeft ==
    BoxShown =>
        /\ ShownBox.weeksLeftInPlan = Len(ShownPlan) - ShownBox.weekNumber
        /\ ShownBox.weeksLeftInPlan >= 0
        /\ ShownBox.weeksLeftInPhase = LaterOfSamePhase(ShownPlan, ShownBox.weekNumber)

----------------------------------------------------------------------------
(* The calorie targets of a validated request *)

(* C29: every record of the plan generated for a request that passed the
   route's validation, and of the plan stored for it, has
   targetCalories > 0. *)
C29_TargetCaloriesPositive ==
    /\ \A k \in Weeks : plan[k].targetCalories > 0
    /\ \A id \in PlanIds :
          \A k \in 1 .. Len(store[id].items) :
              store[id].items[k].targetCalories > 0

----------------------------------------------------------------------------
(* The current week of a plan *)

\* The days "today" is taken from: the first and the last day of every week
\* of the plan, the day before each first and the day after each last day
PlanTodays ==
    UNION { { plan[k].startDate, plan[k].endDate,
              ShiftedDay(plan[k].startDate, -1), ShiftedDay(plan[k].endDate, 1) } :
            k \in Weeks }
MatchingWeeks(today) == {k \in Weeks : IsCurrentWeek(plan[k], today)}
InsidePlan(today) ==
    StringLeq(plan[1].startDate, today) /\ StringLeq(today, plan[Len(plan)].endDate)

\* The table rows and the chart points the page highlights for a current week
HighlightedRows(weekNumber) == {k \in Weeks : plan[k].weekNumber = weekNumber}
HighlightedPoints(weekNumber) == {k \in Weeks : (k - 1) + 1 = weekNumber}

(* C30: for a plan produced by generatePlan and any day today, at most one
   record has startDate <= today <= endDate, exactly one when today lies
   between week 1's startDate and the last week's endDate and none
   otherwise; the matched record's weekNumber is its index + 1, so that the
   page's current week, the highlighted table row and the highlighted
   chart point are the same week. *)
C30_OneCurrentWeek ==
    Done =>
        \A today \in PlanTodays :
            LET index == currentWeekIndex(plan, today)
            IN /\ Cardinality(MatchingWeeks(today)) <= 1
               /\ Cardinality(MatchingWeeks(today)) = 1 <=> InsidePlan(today)
               /\ \A k \in MatchingWeeks(today) : plan[k].weekNumber = k
               /\ index # -1 =>
                     /\ HighlightedRows(plan[index + 1].weekNumber) = {index + 1}
                     /\ HighlightedPoints(plan[index + 1].weekNumber) = {index + 1}

====
